---- MODULE Spec2Model ----
(***************************************************************************)
(* Village Life Simulation System: the meaning-pressure inertia engine     *)
(* (src/core/village_meaning_pressure_system.py) and the rumor system      *)
(* (src/rumor_system.py).                                                  *)
(*                                                                         *)
(* Floats are fixed-point integers with six decimals (1.0 = 1000000).      *)
(* math.exp and math.log are tables rounded to six decimals.               *)
(***************************************************************************)
EXTENDS Integers, Sequences, FiniteSets, TLC

VARIABLES
    alignment_inertia,    \* [person, activity] -> inertia (defaultdict(float))
    repetition_counter,   \* [person, activity] -> int    (defaultdict(int))
    experience_history,   \* [person, activity] -> list of experience records
    last,                 \* outcome of the most recent engine call
    n_calls,              \* number of engine calls made so far
    fixed,                \* the context a repeated scenario uses, or NoFixed
    trace,                \* inertia returned by each update of the scenario
    active_rumors,        \* RumorSystem.active_rumors: references to rumors
    rumor_history,        \* RumorSystem.rumor_history: the Rumor objects
    village_reputation,   \* RumorSystem.village_reputation
    trust_ledger,         \* experiences the rumor system pushed to the adapter
    day,                  \* the day of long_term_simulation
    created_on,           \* the day on which each rumor was created
    rumor_last,           \* outcome of the most recent rumor-system call
    subjective_boundaries,  \* VillageSSDAdapter.subjective_boundaries
    territory_boundaries, \* territory_processor.subjective_boundaries
    adapter_last,         \* outcome of the most recent adapter call
    n_experiences,        \* number of experiences recorded so far
    ongoing_projects,     \* MeaningPressureCarpentrySystem.ongoing_projects
    completed_projects,   \* MeaningPressureCarpentrySystem.completed_projects
    project_counter,      \* MeaningPressureCarpentrySystem.project_counter
    current_day,          \* the day the simulation passes to the carpenters
    carpentry_last,       \* outcome of the most recent carpentry call
    villagers,            \* IntegratedVillageSimulation.villagers, by name
    food_storage,         \* IntegratedVillageSimulation.food_storage
    phase,                \* the position of simulate_day
    phases_run,           \* the phases the current simulate_day has run
    village_last,         \* outcome of the most recent step of the day
    n_incidents,          \* injuries and emergencies so far
    n_demands,            \* days so far with work for a carpenter
    injury_probe,         \* the inputs and result of an injury-risk query
    material_storage,     \* MeaningPressureCarpentrySystem.material_storage
    execution_last,       \* outcome of the most recent one-day construction
    n_executions          \* number of one-day constructions so far

engine_vars == << alignment_inertia, repetition_counter, experience_history,
                  last, n_calls, fixed, trace >>

rumor_vars == << active_rumors, rumor_history, village_reputation,
                 trust_ledger, day, created_on, rumor_last >>

adapter_vars == << subjective_boundaries, territory_boundaries,
                   adapter_last, n_experiences >>

carpentry_vars == << ongoing_projects, completed_projects, project_counter,
                     current_day, carpentry_last >>

day_vars == << villagers, food_storage, phase, phases_run, village_last,
               n_incidents, n_demands >>

material_vars == << material_storage, execution_last, n_executions >>

village_vars == << villagers, food_storage, phase, phases_run, village_last,
                   n_incidents, n_demands, injury_probe, material_storage,
                   execution_last, n_executions >>

vars == << alignment_inertia, repetition_counter, experience_history,
           last, n_calls, fixed, trace, active_rumors, rumor_history,
           village_reputation, trust_ledger, day, created_on, rumor_last,
           subjective_boundaries, territory_boundaries, adapter_last,
           n_experiences, ongoing_projects, completed_projects,
           project_counter, current_day, carpentry_last, villagers,
           food_storage, phase, phases_run, village_last, n_incidents,
           n_demands, injury_probe, material_storage, execution_last,
           n_executions >>

----------------------------------------------------------------------------
(* Bounds *)

MaxCalls == 2       \* engine calls in a run of Spec
MaxFixedCalls == 32  \* calls of the repeated scenario in SpecFixed
MaxRumors == 4      \* rumors created in a run of SpecRumor
MaxDay == 2         \* days simulated in a run of SpecRumor
MaxLongRumors == 9  \* rumors created in a run of SpecLong
MaxLongDay == 10    \* days simulated in a run of SpecLong
MaxExperiences == 4 \* experiences recorded in a run of SpecAdapter
MaxCarpentryDays == 5  \* days simulated in a run of SpecCarpentry
MaxProjects == 2    \* projects started in a run of SpecCarpentry
MaxFatigueTenths == 10  \* the fatigue levels of SpecInjury, in tenths
MaxSimDay == 3      \* days simulated in a run of SpecVillage
MaxIncidents == 1   \* injuries and emergencies in a run of SpecVillage
MaxDemands == 1     \* days with carpentry work in a run of SpecVillage
MaxExecutions == 4  \* one-day jobs carried out in a run of SpecMaterials

----------------------------------------------------------------------------
(* Fixed-point arithmetic *)

ONE == 1000 * 1000

Abs(x) == IF x < 0 THEN 0 - x ELSE x

Max(a, b) == IF a >= b THEN a ELSE b

Min(a, b) == IF a <= b THEN a ELSE b

\* floor(a * b / ONE) for a, b >= 0, split so that no product leaves 32 bits
MulAbs(a, b) ==
    LET ah == a \div 1000
        al == a % 1000
        bh == b \div 1000
        bl == b % 1000
    IN  ah * bh + ((ah * bl + al * bh + ((al * bl) \div 1000)) \div 1000)

\* the float product a * b
Mul(a, b) ==
    IF (a < 0) = (b < 0) THEN MulAbs(Abs(a), Abs(b))
    ELSE 0 - MulAbs(Abs(a), Abs(b))

\* math.exp(-n / 100) for n = 0 .. 125
ExpTable ==
    << 1000000, 990050, 980199, 970446, 960789, 951229, 941765, 932394, 923116,
       913931, 904837, 895834, 886920, 878095, 869358, 860708, 852144, 843665,
       835270, 826959, 818731, 810584, 802519, 794534, 786628, 778801, 771052,
       763379, 755784, 748264, 740818, 733447, 726149, 718924, 711770, 704688,
       697676, 690734, 683861, 677057, 670320, 663650, 657047, 650509, 644036,
       637628, 631284, 625002, 618783, 612626, 606531, 600496, 594521, 588605,
       582748, 576950, 571209, 565525, 559898, 554327, 548812, 543351, 537944,
       532592, 527292, 522046, 516851, 511709, 506617, 501576, 496585, 491644,
       486752, 481909, 477114, 472367, 467666, 463013, 458406, 453845, 449329,
       444858, 440432, 436049, 431711, 427415, 423162, 418952, 414783, 410656,
       406570, 402524, 398519, 394554, 390628, 386741, 382893, 379083, 375311,
       371577, 367879, 364219, 360595, 357007, 353455, 349938, 346456, 343009,
       339596, 336216, 332871, 329559, 326280, 323033, 319819, 316637, 313486,
       310367, 307279, 304221, 301194, 298197, 295230, 292293, 289384, 286505 >>

RECURSIVE ExpNeg(_)
\* math.exp(-n / 100), n a natural number
ExpNeg(n) ==
    IF n <= 125 THEN ExpTable[n + 1]
    ELSE Mul(ExpTable[126], ExpNeg(n - 125))

\* math.log(n) for n = 1 .. 20
LogTable ==
    << 0, 693147, 1098612, 1386294, 1609438, 1791759, 1945910, 2079442,
       2197225, 2302585, 2397895, 2484907, 2564949, 2639057, 2708050,
       2772589, 2833213, 2890372, 2944439, 2995732 >>

----------------------------------------------------------------------------
(* Activities and contexts *)

ActivityType ==
    {"hunting", "caregiving", "cooking", "social_coordination", "carpentry"}

\* village_hunting.py passes the plain string 'HUNTING', which is no ActivityType
StringActivity == "HUNTING"

ActivityKeys == ActivityType \cup {StringActivity}

Persons == {"A", "B"}

MeaningLevel == {"TRIVIAL", "ROUTINE", "MEANINGFUL", "PROFOUND"}

\* context.get(key, default)
Get(context, key, default) ==
    IF key \in DOMAIN context THEN context[key] ELSE default

\* the scenario context: success with effectiveness 0.6 and difficulty 0.4
CtxScenario == [success |-> TRUE, effectiveness |-> 600000, difficulty |-> 400000]

\* an everyday success
CtxRoutine == [success |-> TRUE, effectiveness |-> 700000]

\* the same success during an emergency
CtxEmergency == [success |-> TRUE, effectiveness |-> 700000, emergency |-> TRUE]

\* a village-wide crisis under every pressure there is
CtxCrisis ==
    [success |-> TRUE, effectiveness |-> 800000, difficulty |-> 900000,
     emergency |-> TRUE, large_prey |-> TRUE, danger_level |-> 800000,
     people_affected |-> 15, village_wide_impact |-> TRUE,
     collaboration |-> TRUE, time_pressure |-> TRUE,
     resource_scarcity |-> TRUE, weather_bad |-> TRUE,
     group_coordination |-> TRUE, mentor_present |-> TRUE,
     high_stakes |-> TRUE]

\* a failure that carries no other key
CtxFailure == [success |-> FALSE]

\* nobody was affected
CtxNobody == [success |-> TRUE, effectiveness |-> 700000, people_affected |-> 0]

\* a negative head count
CtxNegative == [success |-> FALSE, people_affected |-> -1]

Contexts ==
    {CtxRoutine, CtxEmergency, CtxCrisis, CtxFailure, CtxNobody, CtxNegative}

FixedContexts == Contexts \cup {CtxScenario}

----------------------------------------------------------------------------
(* The engine's tables *)

activity_resistance ==
    [a \in ActivityType |->
        CASE a = "hunting" -> 400000
          [] a = "caregiving" -> 200000
          [] a = "cooking" -> 300000
          [] a = "social_coordination" -> 500000
          [] a = "carpentry" -> 600000]

base_alignment ==
    [a \in ActivityType |->
        CASE a = "hunting" -> 250000
          [] a = "caregiving" -> 300000
          [] a = "cooking" -> 350000
          [] a = "social_coordination" -> 200000
          [] a = "carpentry" -> 400000]

base_rates ==
    [a \in ActivityType |->
        CASE a = "hunting" -> 120000
          [] a = "caregiving" -> 150000
          [] a = "cooking" -> 180000
          [] a = "social_coordination" -> 100000
          [] a = "carpentry" -> 140000]

\* base_pressure with the TRIVIAL entry set to the ROUTINE value
base_pressure_trivial_as_routine ==
    [l \in MeaningLevel |->
        CASE l = "TRIVIAL" -> 500000
          [] l = "ROUTINE" -> 500000
          [] l = "MEANINGFUL" -> 1000000
          [] l = "PROFOUND" -> 2000000]

\* base_pressure with the PROFOUND and TRIVIAL entries exchanged
base_pressure_profound_low ==
    [l \in MeaningLevel |->
        CASE l = "TRIVIAL" -> 2000000
          [] l = "ROUTINE" -> 500000
          [] l = "MEANINGFUL" -> 1000000
          [] l = "PROFOUND" -> 200000]

base_pressure ==
    [l \in MeaningLevel |->
        CASE l = "TRIVIAL" -> 200000
          [] l = "ROUTINE" -> 500000
          [] l = "MEANINGFUL" -> 1000000
          [] l = "PROFOUND" -> 2000000]

----------------------------------------------------------------------------
(* The inertia engine: pure parts *)

\* the hunting rules with the large-prey rule tried before the emergency rule
hunting_meaning_level_prey_first(context) ==
    LET success == Get(context, "success", FALSE)
        effectiveness == Get(context, "effectiveness", 500000)
        emergency == Get(context, "emergency", FALSE)
        large_prey == Get(context, "large_prey", FALSE)
        danger_level == Get(context, "danger_level", 0)
    IN  IF large_prey /\ success /\ danger_level > 700000 THEN "MEANINGFUL"
        ELSE IF emergency /\ success THEN "PROFOUND"
        ELSE IF success /\ effectiveness > 600000 THEN "ROUTINE"
        ELSE "TRIVIAL"

\* the hunting rules of _assess_meaning_level
hunting_meaning_level(context) ==
    LET success == Get(context, "success", FALSE)
        effectiveness == Get(context, "effectiveness", 500000)
        emergency == Get(context, "emergency", FALSE)
        large_prey == Get(context, "large_prey", FALSE)
        danger_level == Get(context, "danger_level", 0)
    IN  IF emergency /\ success THEN "PROFOUND"
        ELSE IF large_prey /\ success /\ danger_level > 700000 THEN "MEANINGFUL"
        ELSE IF success /\ effectiveness > 600000 THEN "ROUTINE"
        ELSE "TRIVIAL"

assess_meaning_level(activity, context) ==
    LET success == Get(context, "success", FALSE)
        effectiveness == Get(context, "effectiveness", 500000)
        difficulty == Get(context, "difficulty", 500000)
        innovation == Get(context, "innovation", FALSE)
    IN  CASE activity = "hunting" -> hunting_meaning_level(context)
          [] activity = "caregiving" ->
               LET life_threatening == Get(context, "life_threatening", FALSE)
                   patient_recovery == Get(context, "patient_recovery", FALSE)
               IN  IF life_threatening /\ success /\ patient_recovery
                        THEN "PROFOUND"
                   ELSE IF success /\ effectiveness > 700000 THEN "MEANINGFUL"
                   ELSE IF success THEN "ROUTINE"
                   ELSE "TRIVIAL"
          [] activity = "cooking" ->
               LET feast_preparation == Get(context, "feast_preparation", FALSE)
                   new_recipe == Get(context, "new_recipe", FALSE)
                   food_crisis == Get(context, "food_crisis", FALSE)
               IN  IF (feast_preparation \/ food_crisis) /\ success
                        THEN "PROFOUND"
                   ELSE IF new_recipe /\ success THEN "MEANINGFUL"
                   ELSE IF success /\ effectiveness > 600000 THEN "ROUTINE"
                   ELSE "TRIVIAL"
          [] activity = "carpentry" ->
               LET complex_project == Get(context, "complex_project", FALSE)
                   new_technique == Get(context, "new_technique", FALSE)
                   emergency_construction ==
                       Get(context, "emergency_construction", FALSE)
                   project_quality == Get(context, "project_quality", 500000)
               IN  IF (complex_project \/ emergency_construction) /\ success
                          /\ project_quality > 800000
                        THEN "PROFOUND"
                   ELSE IF new_technique /\ success THEN "MEANINGFUL"
                   ELSE IF success /\ project_quality > 600000 THEN "ROUTINE"
                   ELSE "TRIVIAL"
          [] OTHER ->
               IF innovation /\ success THEN "PROFOUND"
               ELSE IF success /\ effectiveness > 700000 /\ difficulty > 600000
                    THEN "MEANINGFUL"
               ELSE IF success THEN "ROUTINE"
               ELSE "TRIVIAL"

\* decay_rate * 100 of _calculate_repetition_decay
decay_rate(activity) ==
    CASE activity = "hunting" -> 5
      [] activity = "caregiving" -> 3
      [] activity = "cooking" -> 4
      [] activity = "carpentry" -> 2
      [] OTHER -> 8

\* repetition_decay without the 30% floor
repetition_decay_no_floor(count, activity) ==
    ExpNeg(count * decay_rate(activity))

\* the value _calculate_repetition_decay returns for the counter value count
repetition_decay(count, activity) ==
    Max(300000, ExpNeg(count * decay_rate(activity)))

Bonus(context, key, amount) ==
    IF Get(context, key, FALSE) THEN amount ELSE 0

assess_activity_complexity(activity, context) ==
    LET common == ONE + Bonus(context, "collaboration", 300000)
                      + Bonus(context, "time_pressure", 200000)
                      + Bonus(context, "resource_scarcity", 400000)
        special ==
            CASE activity = "hunting" ->
                     Bonus(context, "weather_bad", 300000)
                     + Bonus(context, "group_coordination", 400000)
              [] activity = "caregiving" ->
                     Bonus(context, "multiple_patients", 500000)
                     + Bonus(context, "diagnosis_difficulty", 600000)
              [] activity = "cooking" ->
                     Bonus(context, "limited_ingredients", 400000)
                     + Bonus(context, "large_group", 300000)
              [] activity = "carpentry" ->
                     Bonus(context, "limited_materials", 500000)
                     + Bonus(context, "structural_requirements", 600000)
                     + Bonus(context, "team_coordination", 400000)
              [] OTHER -> 0
    IN  Min(2500000, common + special)

\* math.log(people_affected) raises ValueError for a value that is not positive
LogRaises(context) == Get(context, "people_affected", 1) <= 0

calculate_social_impact(activity, context) ==
    LET people_affected == Get(context, "people_affected", 1)
        byPeople == Mul(ONE, ONE + Mul(LogTable[people_affected], 200000))
        byEmergency == IF Get(context, "emergency", FALSE)
                       THEN Mul(byPeople, 1500000) ELSE byPeople
        byVillage == IF Get(context, "village_wide_impact", FALSE)
                     THEN Mul(byEmergency, 1800000) ELSE byEmergency
    IN  Min(3000000, byVillage)

\* the value calculate_meaning_pressure returns when the counter reads count
meaning_pressure(activity, context, count) ==
    LET level == assess_meaning_level(activity, context)
        repetition_factor == repetition_decay(count, activity)
        complexity_factor == assess_activity_complexity(activity, context)
        social_impact == calculate_social_impact(activity, context)
    IN  Max(50000,
            Mul(Mul(Mul(base_pressure[level], complexity_factor),
                    repetition_factor), social_impact))

get_learning_rate(activity, context) ==
    LET r0 == base_rates[activity]
        r1 == IF Get(context, "mentor_present", FALSE)
              THEN Mul(r0, 1300000) ELSE r0
    IN  IF Get(context, "high_stakes", FALSE) THEN Mul(r1, 1200000) ELSE r1

\* W = p*j - rho*j^2 with j = (G0 + g*kappa) * p
alignment_work(current_inertia, p, activity) ==
    LET G0 == base_alignment[activity]
        g == 300000
        rho == activity_resistance[activity]
        j == Mul(G0 + Mul(g, current_inertia), p)
    IN  Mul(p, j) - Mul(rho, Mul(j, j))

\* max(0.05, min(new_inertia, 10.0))
clamp_inertia(x) == Max(50000, Min(x, 10000000))

\* the inertia update_alignment_inertia_with_meaning_pressure stores
new_inertia(current_inertia, p, activity, context, time_decay) ==
    LET W == alignment_work(current_inertia, p, activity)
        decayed_inertia == Mul(current_inertia, time_decay)
        learning_rate == get_learning_rate(activity, context)
        raw == IF W > 0 THEN decayed_inertia + Mul(learning_rate, W)
               ELSE decayed_inertia + Mul(Mul(learning_rate, W), 200000)
    IN  clamp_inertia(raw)

----------------------------------------------------------------------------
(* The inertia engine: state and operations *)

TimeDecayDefault == 980000

HistoryCap == 30

HistoryKeep == 20

Pairs == Persons \X ActivityKeys

NoFixed == [activity |-> "none", context |-> CtxFailure, op |-> "none"]

NoCall ==
    [op |-> "none", person |-> "none", activity |-> "none",
     context |-> CtxFailure, raised |-> "none", level |-> "none",
     count |-> 0, pressure |-> 0, work |-> 0, before |-> 0, after |-> 0]

EngineInit ==
    /\ alignment_inertia = [k \in {} |-> 0]
    /\ repetition_counter = [k \in Pairs |-> 0]
    /\ experience_history = [k \in Pairs |-> << >>]
    /\ last = NoCall
    /\ n_calls = 0

\* d[k] of a defaultdict(float): the stored value, 0.0 for a key not stored
Lookup(d, k) == IF k \in DOMAIN d THEN d[k] ELSE 0

\* d after d[k] = v
Store(d, k, v) == [x \in DOMAIN d \cup {k} |-> IF x = k THEN v ELSE d[x]]

\* d after d[k] was read: a defaultdict stores the default under a new key
Touch(d, k) == Store(d, k, Lookup(d, k))

\* counter_after if the increment were lost
counter_after_lost(count) == count

\* the counter value _calculate_repetition_decay leaves behind
counter_after(count) == count + 1

\* history_after if the list were never cut back
history_after_uncut(history, experience) == Append(history, experience)

\* experience_history[person][activity] after the append and the size limit
history_after(history, experience) ==
    LET appended == Append(history, experience)
    IN  IF Len(appended) > HistoryCap
        THEN SubSeq(appended, Len(appended) - HistoryKeep + 1, Len(appended))
        ELSE appended

\* the meaning pressure _update_experience_history records: it calls
\* calculate_meaning_pressure again, after the counter has moved on from count
recorded_pressure(activity, context, count) ==
    meaning_pressure(activity, context, counter_after(count))

\* calculate_meaning_pressure(person_id, activity, context)
calculate_meaning_pressure(person, activity, context) ==
    LET k == << person, activity >>
        count == repetition_counter[k]
    IN  /\ repetition_counter' =
               [repetition_counter EXCEPT ![k] = counter_after(count)]
        /\ last' =
               IF LogRaises(context)
               THEN [NoCall EXCEPT !.op = "calculate", !.person = person,
                        !.activity = activity, !.context = context,
                        !.raised = "ValueError", !.count = count]
               ELSE [NoCall EXCEPT !.op = "calculate", !.person = person,
                        !.activity = activity, !.context = context,
                        !.level = assess_meaning_level(activity, context),
                        !.count = count,
                        !.pressure = meaning_pressure(activity, context, count)]
        /\ UNCHANGED << alignment_inertia, experience_history >>

\* update_alignment_inertia_with_meaning_pressure(person_id, activity, context)
update_alignment_inertia(person, activity, context) ==
    LET k == << person, activity >>
        count == repetition_counter[k]
        current_inertia == Lookup(alignment_inertia, k)
        called == [NoCall EXCEPT !.op = "update", !.person = person,
                      !.activity = activity, !.context = context,
                      !.count = count, !.before = current_inertia,
                      !.after = current_inertia]
    IN  IF LogRaises(context)
        THEN \* math.log raises inside the first calculation
             /\ repetition_counter' =
                    [repetition_counter EXCEPT ![k] = counter_after(count)]
             /\ last' = [called EXCEPT !.raised = "ValueError"]
             /\ alignment_inertia' = Touch(alignment_inertia, k)
             /\ UNCHANGED experience_history
        ELSE IF activity \notin ActivityType
        THEN \* self.base_alignment[activity] raises after the calculation
             /\ repetition_counter' =
                    [repetition_counter EXCEPT ![k] = counter_after(count)]
             /\ last' = [called EXCEPT !.raised = "KeyError",
                            !.level = assess_meaning_level(activity, context),
                            !.pressure =
                                meaning_pressure(activity, context, count)]
             /\ alignment_inertia' = Touch(alignment_inertia, k)
             /\ UNCHANGED experience_history
        ELSE LET p == meaning_pressure(activity, context, count)
                 W == alignment_work(current_inertia, p, activity)
                 stored == new_inertia(current_inertia, p, activity, context,
                                       TimeDecayDefault)
                 experience ==
                     [context |-> context, alignment_work |-> W,
                      meaning_pressure |->
                          recorded_pressure(activity, context, count)]
             IN  /\ alignment_inertia' = Store(alignment_inertia, k, stored)
                 /\ repetition_counter' =
                        [repetition_counter EXCEPT
                            ![k] = counter_after(counter_after(count))]
                 /\ experience_history' =
                        [experience_history EXCEPT
                            ![k] = history_after(@, experience)]
                 /\ last' = [called EXCEPT
                                !.level = assess_meaning_level(activity, context),
                                !.pressure = p, !.work = W, !.after = stored]

----------------------------------------------------------------------------
(* The rumor system: data *)

RumorType ==
    {"hunting_skill", "caregiving_skill", "social_skill", "crafting_skill",
     "leadership", "kindness"}

personality_gossip_tendency ==
    [p \in {"social", "aggressive", "competitive", "brave", "cautious",
            "caring", "gentle", "helpful", "analytical", "creative",
            "emotional", "practical"} |->
        CASE p = "social" -> 800000
          [] p = "aggressive" -> 600000
          [] p = "competitive" -> 700000
          [] p = "brave" -> 400000
          [] p = "cautious" -> 100000
          [] p = "caring" -> 500000
          [] p = "gentle" -> 300000
          [] p = "helpful" -> 400000
          [] p = "analytical" -> 200000
          [] p = "creative" -> 600000
          [] p = "emotional" -> 700000
          [] p = "practical" -> 300000]

\* the villagers handed to initialize_reputations, with their personalities
villager_personalities ==
    [n \in {"Akira", "Hana", "Sakura"} |->
        CASE n = "Akira" -> "aggressive"
          [] n = "Hana" -> "gentle"
          [] n = "Sakura" -> "social"]

villager_names == DOMAIN villager_personalities

\* the content templates of a rumor type and polarity (in translation)
content_templates(rumor_type, positive) ==
    CASE rumor_type = "hunting_skill" ->
             IF positive
             THEN << "good at hunting", "brings down the prey",
                     "great hunting skill" >>
             ELSE << "bad at hunting", "lets the prey escape",
                     "poor at hunting" >>
      [] rumor_type = "caregiving_skill" ->
             IF positive
             THEN << "good at nursing", "good with the sick",
                     "skilled at treatment" >>
             ELSE << "bad at nursing", "fails at treatment",
                     "poor with the sick" >>
      [] OTHER -> IF positive THEN << "good" >> ELSE << "bad" >>

domain_mapping(rumor_type) ==
    CASE rumor_type = "hunting_skill" -> "survival_competence"
      [] rumor_type = "caregiving_skill" -> "social_care"
      [] rumor_type = "social_skill" -> "social_coordination"
      [] rumor_type = "crafting_skill" -> "resource_creation"
      [] rumor_type = "leadership" -> "group_coordination"
      [] rumor_type = "kindness" -> "social_care"
      [] OTHER -> "general_competence"

\* the value create_rumor_from_interaction returns when it makes no rumor
None == -1

\* what the callers of create_rumor_from_interaction tell about
Interactions ==
    { [speaker |-> "Sakura", listener |-> "Hana", subject |-> "Akira",
       rumor_type |-> "crafting_skill", positive |-> TRUE,
       intensity |-> 900000, context |-> "direct_experience"],
      [speaker |-> "Hana", listener |-> "Sakura", subject |-> "Akira",
       rumor_type |-> "kindness", positive |-> FALSE,
       intensity |-> 1200000, context |-> "witnessed_failure"] }

\* the one thing told over and over in the long run
LongInteractions ==
    { [speaker |-> "Sakura", listener |-> "Hana", subject |-> "Akira",
       rumor_type |-> "kindness", positive |-> FALSE,
       intensity |-> 300000, context |-> "witnessed_failure"] }

\* values of random.random() at the gossip gate
GateDraws == {300000, 900000}

\* values of random.random() in _should_spread_rumor
RollDraws == {50000, 600000}

\* values of random.uniform(0.4, 0.9)
ConfidenceDraws == {400000, 900000}

\* relationships.get(knower, {}).get(listener, 0.5)
RelationshipWeight(relationships, knower, listener) ==
    IF << knower, listener >> \in DOMAIN relationships
    THEN relationships[<< knower, listener >>] ELSE 500000

\* no relationship is recorded: every weight is the default
NoRelationships == [k \in {} |-> 0]

\* Sakura never talks to Hana
ColdRelationships == [k \in {<< "Sakura", "Hana" >>} |-> 0]

RelationshipMaps == {NoRelationships, ColdRelationships}

----------------------------------------------------------------------------
(* The rumor system: operations on the state
   rs = [active_rumors, rumor_history, trust_ledger, created_on] *)

\* the Rumor object an element of active_rumors refers to
RumorAt(history, ref) == history[ref + 1]

gossip_chance(speaker) ==
    IF speaker \in DOMAIN villager_personalities
    THEN personality_gossip_tendency[villager_personalities[speaker]]
    ELSE personality_gossip_tendency["gentle"]

\* update_trust_through_interaction: the valence an interaction outcome
\* is recorded with
interaction_valence(success, effectiveness) ==
    IF success THEN effectiveness ELSE -300000

\* the experience _apply_ssd_effects pushes through
\* update_trust_through_interaction
apply_ssd_effects(rumor) ==
    LET effect_strength == Mul(rumor.intensity, rumor.confidence)
        effectiveness == Mul(effect_strength, 300000)
    IN  [actor |-> rumor.source_name, target |-> rumor.target_name,
         interaction_type |-> domain_mapping(rumor.rumor_type),
         success |-> rumor.positive,
         valence |-> interaction_valence(rumor.positive, effectiveness)]

\* gate_open if the gate were never closed
gate_open_always(draw, chance) == TRUE

\* the gossip gate lets the speaker talk
gate_open(draw, chance) == ~(draw > chance)

\* create_rumor_from_interaction: the state and the returned reference
create_rumor_from_interaction(rs, today, speaker, listener, subject, rumor_type, positive, intensity, context, gate, confidence_draw, content) ==
    IF ~gate_open(gate, gossip_chance(speaker))
    THEN [rs |-> rs, result |-> None]
    ELSE LET confidence ==
                 IF context = "direct_experience"
                 THEN confidence_draw + 200000 ELSE confidence_draw
             rumor ==
                 [target_name |-> subject, rumor_type |-> rumor_type,
                  content |-> content, positive |-> positive,
                  intensity |-> Min(intensity, ONE),
                  source_name |-> speaker, confidence |-> confidence,
                  witnesses |-> << listener >>,
                  creation_time |-> Len(rs.rumor_history)]
         IN  [rs |-> [active_rumors |->
                          Append(rs.active_rumors, rumor.creation_time),
                      rumor_history |-> Append(rs.rumor_history, rumor),
                      trust_ledger |->
                          Append(rs.trust_ledger, apply_ssd_effects(rumor)),
                      created_on |-> Append(rs.created_on, today)],
              result |-> rumor.creation_time]

\* the elements of a sequence
Range(seq) == {seq[i] : i \in DOMAIN seq}

\* _should_spread_rumor
should_spread_rumor(speaker, rumor, roll) ==
    roll < Mul(gossip_chance(speaker), rumor.intensity)

\* spread_intensity if a re-told rumor kept its full intensity
spread_intensity_full(intensity) == intensity

\* the intensity a re-told rumor is created with
spread_intensity(intensity) == Mul(intensity, 900000)

\* one round of the loop of spread_rumors_through_interactions for the sampled
\* rumor ref: the set of outcomes [rs, log, raised]
SpreadRound(st, today, ref, relationships) ==
    LET rs == st.rs
        spread_rumor == RumorAt(rs.rumor_history, ref)
        possible_knowers ==
            {spread_rumor.source_name} \cup Range(spread_rumor.witnesses)
    IN  UNION {
          LET possible_listeners ==
                  villager_names \ {knower, spread_rumor.target_name}
              weighted ==
                  {l \in possible_listeners :
                      RelationshipWeight(relationships, knower, l) > 0}
              entry == [rumor |-> ref, sampled |-> spread_rumor,
                        knower |-> knower, listener |-> "none",
                        should_spread |-> FALSE, gate |-> 0,
                        result |-> None]
          IN  IF possible_listeners = {}
              THEN {[st EXCEPT !.log = Append(@, entry)]}
              ELSE IF weighted = {}
              THEN \* random.choices: the total of the weights is zero
                   {[st EXCEPT !.log = Append(@, entry),
                               !.raised = "ValueError"]}
              ELSE UNION {
                     UNION {
                       IF ~should_spread_rumor(knower, spread_rumor, roll)
                       THEN {[st EXCEPT
                                !.log = Append(@,
                                    [entry EXCEPT !.listener = listener])]}
                       ELSE { LET made ==
                                    create_rumor_from_interaction(
                                        rs, today, knower, listener,
                                        spread_rumor.target_name,
                                        spread_rumor.rumor_type,
                                        spread_rumor.positive,
                                        spread_intensity(
                                            spread_rumor.intensity),
                                        "rumor_spread", gate, confidence_draw,
                                        content)
                              IN  [st EXCEPT
                                     !.rs = made.rs,
                                     !.log = Append(@,
                                         [entry EXCEPT
                                            !.listener = listener,
                                            !.should_spread = TRUE,
                                            !.gate = gate,
                                            !.result = made.result])]
                              : gate \in GateDraws,
                                confidence_draw \in ConfidenceDraws,
                                content \in Range(content_templates(
                                               spread_rumor.rumor_type,
                                               spread_rumor.positive)) }
                       : roll \in RollDraws }
                     : listener \in weighted }
          : knower \in possible_knowers }

RECURSIVE SpreadRounds(_, _, _, _)
\* the loop over the sampled rumors; an exception ends it
SpreadRounds(st, today, sample, relationships) ==
    IF sample = << >> \/ st.raised # "none" THEN {st}
    ELSE UNION { SpreadRounds(st2, today, Tail(sample), relationships)
                 : st2 \in SpreadRound(st, today, Head(sample),
                                       relationships) }

\* random.sample(active_rumors, min(3, len(active_rumors)))
Samples(active) ==
    LET k == Min(3, Len(active))
    IN  { [i \in 1..k |-> active[pos[i]]] :
            pos \in {f \in [1..k -> 1..Len(active)] :
                        \A i, j \in 1..k : i # j => f[i] # f[j]} }

RECURSIVE WeightedSum(_, _, _, _)
\* the sums update_reputation_from_rumors takes over the relevant rumors
WeightedSum(history, active, name, rumor_type) ==
    IF active = << >> THEN [weighted_sum |-> 0, total_weight |-> 0]
    ELSE LET rumor == RumorAt(history, Head(active))
             rest == WeightedSum(history, Tail(active), name, rumor_type)
             weight == Mul(rumor.intensity, rumor.confidence)
             value == IF rumor.positive THEN 800000 ELSE 200000
         IN  IF rumor.target_name = name /\ rumor.rumor_type = rumor_type
             THEN [weighted_sum |-> rest.weighted_sum + Mul(value, weight),
                   total_weight |-> rest.total_weight + weight]
             ELSE rest

\* the float quotient a / b for a >= 0, b > 0
Div(a, b) ==
    LET q0 == a \div b
        r0 == a % b
        q1 == (r0 * 100) \div b
        r1 == (r0 * 100) % b
        q2 == (r1 * 100) \div b
        r2 == (r1 * 100) % b
        q3 == (r2 * 100) \div b
    IN  q0 * ONE + q1 * 10000 + q2 * 100 + q3

\* blend_reputation if the old and the new value counted the same
blend_reputation_half(old_reputation, new_reputation) ==
    Mul(old_reputation, 500000) + Mul(new_reputation, 500000)

\* old_reputation * 0.7 + new_reputation * 0.3
blend_reputation(old_reputation, new_reputation) ==
    Mul(old_reputation, 700000) + Mul(new_reputation, 300000)

\* village_reputation after update_reputation_from_rumors
update_reputation_from_rumors(reputation, history, active) ==
    [name \in DOMAIN reputation |->
        [rumor_type \in RumorType |->
            LET sums == WeightedSum(history, active, name, rumor_type)
            IN  IF sums.total_weight > 0
                THEN blend_reputation(
                         reputation[name][rumor_type],
                         Div(sums.weighted_sum, sums.total_weight))
                ELSE reputation[name][rumor_type]]]

\* current_time - rumor.creation_time > 7
is_old(history, rumor) == Len(history) - rumor.creation_time > 7

\* rumor.intensity *= 0.9
decayed_intensity(intensity) == Mul(intensity, 900000)

\* history_after_decay if a rumor that leaves the active set left the log too
history_after_decay_pruned(history, active) ==
    LET Old(rumor) ==
            /\ rumor.creation_time \in Range(active)
            /\ is_old(history, rumor)
        decayed ==
            [i \in DOMAIN history |->
                IF Old(history[i])
                THEN [history[i] EXCEPT
                         !.intensity = decayed_intensity(history[i].intensity)]
                ELSE history[i]]
        Kept(rumor) == ~(Old(rumor) /\ rumor.intensity < 200000)
    IN  SelectSeq(decayed, Kept)

\* the rumor objects after the decay pass at the end of a day
history_after_decay(history, active) ==
    [i \in DOMAIN history |->
        IF (i - 1) \in Range(active) /\ is_old(history, history[i])
        THEN [history[i] EXCEPT
                 !.intensity = decayed_intensity(history[i].intensity)]
        ELSE history[i]]

\* active_rumors after the decay pass at the end of a day
active_after_decay(history, active) ==
    LET decayed == history_after_decay(history, active)
        Stays(ref) ==
            ~(is_old(history, RumorAt(history, ref))
              /\ RumorAt(decayed, ref).intensity < 200000)
    IN  SelectSeq(active, Stays)

NoRumorCall ==
    [op |-> "none", speaker |-> "none", gate |-> 0, result |-> None,
     log |-> << >>, raised |-> "none"]

RumorInit ==
    /\ active_rumors = << >>
    /\ rumor_history = << >>
    /\ village_reputation =
           [name \in villager_names |-> [t \in RumorType |-> 500000]]
    /\ trust_ledger = << >>
    /\ day = 1
    /\ created_on = << >>
    /\ rumor_last = NoRumorCall

----------------------------------------------------------------------------
(* The SSD adapter (src/core/village_ssd_adapter.py): subjective           *)
(* boundaries and trust.  SubjectiveBoundary and TerritoryProcessor come    *)
(* from the ssd_core_engine package; their methods follow section 4.3 of    *)
(* the specification.                                                       *)

\* the villagers whose boundaries are followed, and whom they assess
AdapterVillagers == {"Hana", "Sakura"}

TrustTargets == {"Akira"}

TrustDomains == {"general", "cooperation", "resource_sharing"}

\* the valences an experience is recorded with (3.0, -2.0, 7.0, -7.0)
Valences == {3000000, -2000000, 7000000, -7000000}

\* an empty dict
EmptyDict == [k \in {} |-> 0]

\* a boundary object that has seen nothing
EmptyBoundary ==
    [boundary_strength |-> EmptyDict, inner_objects |-> {},
     outer_objects |-> {}]

\* f"person_{target_id}"
person_key(target_id) == "person_" \o target_id

\* boundary.get_boundary_strength(target_id)
get_boundary_strength(boundary, target_id) ==
    Lookup(boundary.boundary_strength, target_id)

\* boundary.is_inner(target_id)
is_inner(boundary, target_id) == target_id \in boundary.inner_objects

\* boundary.is_outer(target_id)
is_outer(boundary, target_id) == target_id \in boundary.outer_objects

\* territory_processor.initialize_npc_boundaries(npc_id)
initialize_npc_boundaries(boundaries, npc_id) ==
    IF npc_id \in DOMAIN boundaries THEN boundaries
    ELSE Store(boundaries, npc_id, EmptyBoundary)

\* boundary.process_experience(key, valence)
process_experience(boundary, key, valence) ==
    LET old == Lookup(boundary.boundary_strength, key)
        new == Max(-ONE, Min(ONE, old + Mul(150000, valence)))
    IN  [boundary_strength |-> Store(boundary.boundary_strength, key, new),
         inner_objects |->
             IF new > 300000 THEN boundary.inner_objects \cup {key}
             ELSE boundary.inner_objects \ {key},
         outer_objects |->
             IF new < -300000 THEN boundary.outer_objects \cup {key}
             ELSE boundary.outer_objects \ {key}]

\* new_strength if the sum were not clamped
new_strength_unclamped(current_strength, valence) ==
    current_strength + Mul(150000, valence)

\* the strength an experience of this valence leaves
new_strength(current_strength, valence) ==
    Max(-ONE, Min(ONE, current_strength + Mul(150000, valence)))

\* the legacy branch of _update_subjective_boundary on a boundary object
legacy_update(boundary, target_id, valence) ==
    LET current_strength == get_boundary_strength(boundary, target_id)
        new == new_strength(current_strength, valence)
    IN  [boundary_strength |->
             Store(boundary.boundary_strength, target_id, new),
         inner_objects |->
             IF new > 300000 THEN boundary.inner_objects \cup {target_id}
             ELSE IF new < -300000
                  THEN boundary.inner_objects \ {target_id}
                  ELSE boundary.inner_objects,
         outer_objects |->
             IF new > 300000 THEN boundary.outer_objects \ {target_id}
             ELSE IF new < -300000
                  THEN boundary.outer_objects \cup {target_id}
                  ELSE boundary.outer_objects]

\* _update_subjective_boundary: the two dicts of boundaries after the call
update_subjective_boundary(sb, tb, npc_id, target_id, valence) ==
    IF npc_id \in DOMAIN sb
    THEN [sb |-> Store(sb, npc_id,
                       process_experience(sb[npc_id], person_key(target_id),
                                          valence)),
          tb |-> tb]
    ELSE LET known == initialize_npc_boundaries(tb, npc_id)
         IN  [sb |-> sb,
              tb |-> Store(known, npc_id,
                           legacy_update(known[npc_id], target_id, valence))]

\* the domain adjustment of calculate_trust_level
domain_adjusted(trust, domain) ==
    CASE domain = "cooperation" -> Mul(trust, 1100000)
      [] domain = "resource_sharing" -> Mul(trust, 900000)
      [] OTHER -> trust

\* clamp_trust if the result were returned as computed
clamp_trust_off(trust) == trust

\* max(0.0, min(1.0, trust))
clamp_trust(trust) == Max(0, Min(ONE, trust))

\* the trust a strength of the new boundary system maps to
strength_to_trust(strength) ==
    IF strength > 300000 THEN 700000 + Mul(strength, 250000)
    ELSE IF strength < -300000
         THEN 300000 + Max(0, Mul(strength + ONE, 200000))
         ELSE 500000 + Mul(strength, 300000)

\* the trust the legacy boundary of the evaluator gives the target
legacy_trust(boundary, target) ==
    LET target_boundary_strength == get_boundary_strength(boundary, target)
    IN  IF is_inner(boundary, target)
        THEN 700000 + Mul(target_boundary_strength, 250000)
        ELSE IF is_outer(boundary, target)
             THEN 300000 + Max(0, Mul(target_boundary_strength, 200000))
             ELSE 500000 + Mul(target_boundary_strength, 300000)

\* calculate_trust_level(evaluator, target, domain)
calculate_trust_level(sb, tb, evaluator, target, domain) ==
    IF /\ evaluator \in DOMAIN sb
       /\ person_key(target) \in DOMAIN sb[evaluator].boundary_strength
    THEN clamp_trust(domain_adjusted(
             strength_to_trust(
                 sb[evaluator].boundary_strength[person_key(target)]),
             domain))
    ELSE IF evaluator \notin DOMAIN tb THEN 500000
         ELSE clamp_trust(domain_adjusted(
                  legacy_trust(tb[evaluator], target), domain))

NoAdapterCall ==
    [op |-> "none", npc_id |-> "none", target_id |-> "none",
     domain |-> "none", valence |-> 0, result |-> None]

AdapterInit ==
    /\ subjective_boundaries = EmptyDict
    /\ territory_boundaries = EmptyDict
    /\ adapter_last = NoAdapterCall
    /\ n_experiences = 0

----------------------------------------------------------------------------
(* The carpentry system: multi-day projects                                *)
(* (src/systems/carpentry/meaning_pressure_carpentry_system.py), as        *)
(* _conduct_carpentry of the integrated simulation drives it.              *)

\* the villagers who can be the day's carpenter
Carpenters == Persons

\* project_database, in translation: the repairs of one and two days and
\* the house of five days
ProjectDatabase ==
    { [name |-> "wall_repair", construction_type |-> "repair",
       difficulty |-> 200000, base_quality |-> 500000,
       materials_required |-> 100000, village_benefit |-> 100000,
       innovation_potential |-> 0, collaboration_needed |-> FALSE,
       total_work_days |-> 1],
      [name |-> "disaster_recovery", construction_type |-> "emergency_repair",
       difficulty |-> 900000, base_quality |-> 800000,
       materials_required |-> 500000, village_benefit |-> 600000,
       innovation_potential |-> 200000, collaboration_needed |-> TRUE,
       total_work_days |-> 2],
      [name |-> "innovative_house", construction_type |-> "housing",
       difficulty |-> 800000, base_quality |-> 900000,
       materials_required |-> 1200000, village_benefit |-> 500000,
       innovation_potential |-> 700000, collaboration_needed |-> TRUE,
       total_work_days |-> 5] }

\* the requests the simulation makes: construction type and complexity
Requests ==
    { [construction_type |-> "repair", complexity |-> 500000],
      [construction_type |-> "housing", complexity |-> 800000] }

\* _select_project_for_request: the projects random.choice picks from
select_project_for_request(request) ==
    LET suitable ==
            {p \in ProjectDatabase :
                IF request.construction_type = "repair"
                THEN p.construction_type \in {"repair", "emergency_repair"}
                ELSE p.construction_type = request.construction_type}
        innovative == {p \in suitable : p.innovation_potential > 300000}
        basic == {p \in suitable : p.innovation_potential <= 300000}
    IN  IF request.complexity > 700000
        THEN (IF innovative # {} THEN innovative ELSE suitable)
        ELSE (IF basic # {} THEN basic ELSE suitable)

\* the OngoingProject start_multi_day_project creates; id and calls are
\* not fields of the dataclass: id tells the objects apart and calls counts
\* the calls of continue_project_work made on the object
new_ongoing(id, project, carpenter_name, helpers, today) ==
    [id |-> id, calls |-> 0, project |-> project,
     lead_carpenter |-> carpenter_name, helpers |-> helpers,
     start_day |-> today, days_worked |-> 0, total_progress |-> 0,
     daily_progress |-> << >>, quality_accumulation |-> 0,
     materials_used |-> 0]

\* is_complete if a project needed one more day than planned
is_complete_late(ongoing) ==
    ongoing.days_worked > ongoing.project.total_work_days

\* OngoingProject.is_complete
is_complete(ongoing) ==
    ongoing.days_worked >= ongoing.project.total_work_days

\* OngoingProject.get_completion_percentage
get_completion_percentage(ongoing) ==
    Min(100 * ONE,
        (ongoing.total_progress \div ongoing.project.total_work_days) * 100)

\* the efficiency of a day's work: helpers and familiarity add to it
base_efficiency(ongoing) ==
    ONE + (IF ongoing.helpers # << >>
           THEN Min(500000, Len(ongoing.helpers) * 150000) ELSE 0)
        + (IF ongoing.days_worked > 2
           THEN Min(300000, ongoing.days_worked * 50000) ELSE 0)

\* the draws of a day's work: random.random() for the success (0.5 or
\* 0.95), random.uniform for the progress and for the quality of a success,
\* random.randint(5, 15) for the people a village project affects
WorkDraws(ongoing) ==
    LET success_rate ==
            Min(900000, 500000 + Mul(base_efficiency(ongoing), 300000))
    IN  UNION {
          LET success == draw < success_rate
          IN  [success : {success},
               progress : IF success THEN {1200000} ELSE {300000},
               quality : IF success THEN {1100000} ELSE {700000},
               people : IF ongoing.project.village_benefit <= 500000
                        THEN {1} ELSE {5}]
          : draw \in {500000, 950000} }

\* the project object after the updates of a day's work
worked_project(ongoing, draws) ==
    LET project == ongoing.project
        daily_progress == Mul(base_efficiency(ongoing), draws.progress)
        quality_gain ==
            Mul(Mul(project.base_quality, daily_progress), draws.quality)
    IN  [ongoing EXCEPT
            !.calls = @ + 1,
            !.days_worked = @ + 1,
            !.total_progress = @ + daily_progress,
            !.daily_progress = Append(@, daily_progress),
            !.quality_accumulation = @ + quality_gain,
            !.materials_used =
                @ + (project.materials_required \div project.total_work_days)]

\* _create_multi_day_meaning_context, for the project object after the
\* day's updates
multi_day_meaning_context(ongoing, draws) ==
    LET project == ongoing.project
    IN  [success |-> draws.success,
         effectiveness |-> ongoing.daily_progress[Len(ongoing.daily_progress)],
         difficulty |-> project.difficulty,
         innovation |-> project.innovation_potential > 300000,
         collaboration |-> Len(ongoing.helpers) > 0,
         emergency |-> project.construction_type = "emergency_repair",
         village_wide_impact |-> project.village_benefit > 500000,
         people_affected |-> draws.people,
         multi_day_project |-> TRUE,
         project_scale |-> project.total_work_days,
         project_progress |-> get_completion_percentage(ongoing) \div 100,
         team_work |-> Len(ongoing.helpers) > 0,
         long_term_commitment |-> project.total_work_days >= 7,
         milestone_achieved |-> ongoing.days_worked \in {3, 7, 14},
         nearing_completion |->
             ongoing.days_worked >= project.total_work_days - 2,
         early_stage |-> ongoing.days_worked <= 2]

\* two OngoingProject objects are equal as dataclasses
SameData(a, b) ==
    [a EXCEPT !.id = 0, !.calls = 0] = [b EXCEPT !.id = 0, !.calls = 0]

\* list_remove if the element stayed in the list
list_remove_kept(list, x) == list

\* list.remove(x): the list without its first element equal to x
list_remove(list, x) ==
    LET first == CHOOSE i \in DOMAIN list :
                     /\ SameData(list[i], x)
                     /\ \A j \in 1 .. (i - 1) : ~SameData(list[j], x)
    IN  SubSeq(list, 1, first - 1) \o SubSeq(list, first + 1, Len(list))

\* the villager leads or helps one of the projects
carpenter_busy(projects, carpenter_name) ==
    \E i \in DOMAIN projects :
        \/ projects[i].lead_carpenter = carpenter_name
        \/ carpenter_name \in Range(projects[i].helpers)

\* the helpers the simulation may assign to a new project
helper_choices(selected_project, carpenter_name) ==
    IF \/ selected_project.collaboration_needed
       \/ selected_project.total_work_days >= 7
    THEN { << >> } \cup
         { << h >> : h \in
             IF Min(2, selected_project.total_work_days \div 4) > 0
             THEN Carpenters \ {carpenter_name} ELSE {} }
    ELSE { << >> }

NoCarpentryCall ==
    [op |-> "none", id |-> 0, raised |-> "none", success |-> FALSE,
     daily_progress |-> 0, total_progress |-> 0, quality_so_far |-> 0,
     project_name |-> "none", days_remaining |-> 0, is_completed |-> FALSE,
     carpentry_inertia |-> 0, materials_used_today |-> 0,
     final_quality |-> None]

CarpentryInit ==
    /\ ongoing_projects = << >>
    /\ completed_projects = << >>
    /\ project_counter = 0
    /\ current_day = 1
    /\ carpentry_last = NoCarpentryCall

----------------------------------------------------------------------------
(* The integrated simulation: villagers                                    *)
(* (src/simulation/integrated_village_simulation.py)                       *)

\* the villagers of a village of two, in the order of self.villagers
VillagerOrder == << "A", "B" >>

VillagerNames == Persons

\* the skills __post_init__ drew for each villager; they never change
skills ==
    [name \in VillagerNames |->
        IF name = "A"
        THEN [hunting |-> 500000, caregiving |-> 1800000,
              cooking |-> 300000, carpentry |-> 1500000]
        ELSE [hunting |-> 500000, caregiving |-> 200000,
              cooking |-> 2000000, carpentry |-> 200000]]

\* Villager.max_work_sessions
max_work_sessions == 3

\* the most energy a villager may use in one day (can_work)
daily_energy_cap == 800000

\* a Villager as the dataclass creates it
new_villager ==
    [health |-> ONE, hunger |-> 300000, energy |-> ONE, injured |-> FALSE,
     severe_injury |-> FALSE, injury_recovery_days |-> 0,
     daily_energy_used |-> 0, work_sessions_today |-> 0,
     last_work_type |-> "", fatigue_level |-> 0]

\* Villager.can_work(work_type, energy_required); no branch reads work_type
can_work(villager, energy_required) ==
    /\ ~villager.severe_injury
    /\ ~(villager.injured \/ villager.health < 300000)
    /\ ~(villager.energy < energy_required)
    /\ ~(villager.work_sessions_today >= max_work_sessions)
    /\ ~(villager.daily_energy_used + energy_required > daily_energy_cap)

\* Villager.consume_energy(work_type, energy_amount, work_duration)
consume_energy(villager, work_type, energy_amount) ==
    LET energy == Max(0, villager.energy - energy_amount)
        fatigue == IF villager.last_work_type = work_type
                   THEN villager.fatigue_level + 100000
                   ELSE Max(0, villager.fatigue_level - 50000)
    IN  [villager EXCEPT
            !.energy = IF fatigue > 500000 THEN Max(0, energy - 100000)
                       ELSE energy,
            !.daily_energy_used = @ + energy_amount,
            !.work_sessions_today = @ + 1,
            !.fatigue_level = fatigue,
            !.last_work_type = work_type]

\* Villager.reset_daily_work
reset_daily_work(villager) ==
    [villager EXCEPT
        !.daily_energy_used = 0,
        !.work_sessions_today = 0,
        !.energy = Min(ONE, @ + 400000),
        !.fatigue_level = Max(0, @ - 200000)]

\* the days random.randint(3, 7) may give a severe injury
RecoveryDays == {3, 7}

\* _injure_villager, applied to the villager's record
injure_villager(villager, severe, days) ==
    IF severe
    THEN [villager EXCEPT
             !.severe_injury = TRUE,
             !.injury_recovery_days = days,
             !.health = Max(100000, @ - 500000),
             !.injured = TRUE]
    ELSE [villager EXCEPT
             !.injured = TRUE,
             !.health = Max(100000, @ - 300000)]

\* the activities _calculate_injury_risk has a profile for
RiskActivities ==
    {"hunting", "carpentry", "cooking", "caregiving", "construction"}

\* risk_profiles: (base, fatigue multiplier) of the light and of the severe
\* injury, by activity and outcome
risk_profiles(activity_type, success) ==
    CASE activity_type = "hunting" ->
           [light_injury |-> IF success THEN << 30000, 50000 >>
                             ELSE << 80000, 120000 >>,
            severe_injury |-> IF success THEN << 5000, 10000 >>
                              ELSE << 20000, 30000 >>]
      [] activity_type = "carpentry" ->
           [light_injury |-> IF success THEN << 50000, 80000 >>
                             ELSE << 120000, 150000 >>,
            severe_injury |-> IF success THEN << 10000, 20000 >>
                              ELSE << 40000, 60000 >>]
      [] activity_type = "cooking" ->
           [light_injury |-> IF success THEN << 20000, 30000 >>
                             ELSE << 50000, 70000 >>,
            severe_injury |-> IF success THEN << 1000, 5000 >>
                              ELSE << 10000, 20000 >>]
      [] activity_type = "caregiving" ->
           [light_injury |-> IF success THEN << 10000, 20000 >>
                             ELSE << 30000, 40000 >>,
            severe_injury |-> IF success THEN << 500, 1000 >>
                              ELSE << 2000, 5000 >>]
      [] activity_type = "construction" ->
           [light_injury |-> IF success THEN << 60000, 100000 >>
                             ELSE << 150000, 200000 >>,
            severe_injury |-> IF success THEN << 20000, 30000 >>
                              ELSE << 60000, 80000 >>]

\* capped_risk if the maximum were not applied
capped_risk_off(risk, cap) == risk

\* min(cap, risk): the documented maximum of a risk
capped_risk(risk, cap) == Min(cap, risk)

\* _calculate_injury_risk for a villager of the given fatigue; an activity
\* without a profile gets the profile of hunting
calculate_injury_risk(activity_type, success, base_fatigue) ==
    LET profile == IF activity_type \in RiskActivities
                   THEN risk_profiles(activity_type, success)
                   ELSE risk_profiles("hunting", success)
        light_risk == profile.light_injury[1]
                          + Mul(base_fatigue, profile.light_injury[2])
        severe_risk == profile.severe_injury[1]
                          + Mul(base_fatigue, profile.severe_injury[2])
    IN  [light_injury_risk |-> capped_risk(light_risk, 250000),
         severe_injury_risk |-> capped_risk(severe_risk, 100000)]

\* the values random.random() takes in _apply_injury_risk: below every risk
\* or above every risk
InjuryRolls == {0, 999999}

\* the outcome of _apply_injury_risk for the two draws
injury_outcome(risks, roll_severe, roll_light) ==
    IF roll_severe < risks.severe_injury_risk THEN "severe"
    ELSE IF roll_light < risks.light_injury_risk THEN "light"
    ELSE "none"

\* the villager after _apply_injury_risk(activity_type, success, name)
apply_injury_risk(villager, activity_type, success, draw) ==
    LET risks == calculate_injury_risk(activity_type, success,
                                       villager.fatigue_level)
        outcome == injury_outcome(risks, draw.roll_severe, draw.roll_light)
    IN  IF outcome = "severe" THEN injure_villager(villager, TRUE, draw.days)
        ELSE IF outcome = "light" THEN injure_villager(villager, FALSE, 0)
        ELSE villager

\* the draws of one _apply_injury_risk: the recovery days are drawn only
\* for a severe injury and the second roll only without one
InjuryDraws ==
    [roll_severe : {0}, roll_light : {0}, days : RecoveryDays]
    \cup [roll_severe : {999999}, roll_light : InjuryRolls, days : {0}]

\* the draw that injures nobody
NoInjuryDraw == [roll_severe |-> 999999, roll_light |-> 999999, days |-> 0]

\* an injury-risk query that was not made
NoProbe ==
    [activity_type |-> "none", success |-> FALSE, fatigue |-> 0,
     light_injury_risk |-> None, severe_injury_risk |-> None]

\* the result of a step of the day that was not taken
NoStep ==
    [op |-> "none", raised |-> "none", events |-> << >>, updates |-> << >>,
     resolutions |-> << >>, result |-> None]

NoExecution ==
    [op |-> "none", raised |-> "none", call |-> None, stock_before |-> 0,
     result |-> None]

\* the state __init__ leaves behind, but for the injury-risk query
VillageStateInit ==
    /\ villagers = [name \in VillagerNames |-> new_villager]
    /\ food_storage = ONE
    /\ phase = "idle"
    /\ phases_run = << >>
    /\ village_last = NoStep
    /\ n_incidents = 0
    /\ n_demands = 0
    /\ material_storage = 5 * ONE
    /\ execution_last = NoExecution
    /\ n_executions = 0

VillageInit ==
    /\ VillageStateInit
    /\ injury_probe = NoProbe

----------------------------------------------------------------------------
(* The integrated simulation: the activities of a day.  A step works on a  *)
(* record of the villagers, the food storage and what the step has done so *)
(* far: the events it appended, the update calls it made to the inertia    *)
(* engine, the activities it resolved and the injuries it caused.          *)

\* the record a step starts from
World ==
    [villagers |-> villagers, food_storage |-> food_storage,
     events |-> << >>, updates |-> << >>, resolutions |-> << >>,
     incidents |-> n_incidents, demands |-> n_demands]

\* the villagers of a list comprehension, in the order of self.villagers
InOrder(names) == SelectSeq(VillagerOrder, LAMBDA name : name \in names)

\* the first entry of the scores after sort(key = score, reverse = True)
best_scored(names, score(_)) ==
    LET order == InOrder(names)
        first == CHOOSE i \in DOMAIN order :
                     /\ \A j \in DOMAIN order : score(order[j]) <= score(order[i])
                     /\ \A j \in 1 .. (i - 1) : score(order[j]) < score(order[i])
    IN  order[first]

\* _apply_injury_risk for the villager of that name
with_injury_risk(w, name, activity_type, success, draw) ==
    LET villager == w.villagers[name]
        risks == calculate_injury_risk(activity_type, success,
                                       villager.fatigue_level)
        outcome == injury_outcome(risks, draw.roll_severe, draw.roll_light)
    IN  [w EXCEPT
            !.villagers[name] =
                apply_injury_risk(villager, activity_type, success, draw),
            !.incidents = IF outcome = "none" THEN @ ELSE @ + 1]

\* the injury_type of the injury_result
injury_type(w, name, activity_type, success, draw) ==
    injury_outcome(calculate_injury_risk(activity_type, success,
                                         w.villagers[name].fatigue_level),
                   draw.roll_severe, draw.roll_light)

\* _update_hunger
update_hunger(w) ==
    [w EXCEPT !.villagers =
        [name \in VillagerNames |->
            [@[name] EXCEPT !.hunger =
                Min(ONE, @ + 150000
                           + Mul(w.villagers[name].fatigue_level, 50000))]]]

hunting_energy_required == 300000

\* min(0.9, 0.3 + hunting_skill * 0.6)
success_chance(hunter_name) ==
    Min(900000, 300000 + Mul(skills[hunter_name].hunting, 600000))

\* the draws of one hunter: random.random() for the success, the largest
\* random.uniform(0.8, 1.2) for the energy, the least random.uniform(0, 0.5)
\* for the food of a success, and the draws of the injury
HuntDraws ==
    [roll : {100000, 950000}, factor : {1200000}, bonus : {0},
     injury : InjuryDraws]

\* one pass of the loop over the hunters in _conduct_hunting
hunt(w, hunter_name, draw) ==
    LET hunter == w.villagers[hunter_name]
        hunting_skill == skills[hunter_name].hunting
        hunt_success == draw.roll < success_chance(hunter_name)
        energy_consumption == Mul(hunting_energy_required, draw.factor)
        worked == [w EXCEPT !.villagers[hunter_name] =
                      consume_energy(hunter, "hunting", energy_consumption)]
        food_gained == 1500000 + hunting_skill + draw.bonus
        hurt == with_injury_risk(worked, hunter_name, "hunting",
                                 hunt_success, draw.injury)
        event == [type |-> IF hunt_success THEN "hunting_success"
                           ELSE "hunting_failure",
                  actor |-> hunter_name,
                  injury_type |-> injury_type(worked, hunter_name, "hunting",
                                              hunt_success, draw.injury)]
        resolution == [actor |-> hunter_name, activity |-> "hunting",
                       success |-> hunt_success,
                       used_before |-> hunter.daily_energy_used,
                       consumed |-> energy_consumption]
    IN  [hurt EXCEPT
            !.food_storage = IF hunt_success THEN @ + food_gained ELSE @,
            !.events = Append(@, event),
            !.updates = IF hunt_success
                        THEN Append(@, << hunter_name, "hunting" >>)
                        ELSE @,
            !.resolutions = Append(@, resolution)]

\* random.sample(available_hunters, min(2, len(available_hunters))): in a
\* village of two everybody available hunts, and the order of the sample
\* only orders the events of the hunt
hunting_teams(available) == { InOrder(available) }

RECURSIVE hunt_all(_, _, _)
\* the loop over the hunters of the team
hunt_all(w, hunters, draws) ==
    IF hunters = << >> THEN w
    ELSE hunt_all(hunt(w, Head(hunters), Head(draws)),
                  Tail(hunters), Tail(draws))

\* the villagers _conduct_hunting may send
available_hunters(w) ==
    {name \in VillagerNames :
        can_work(w.villagers[name], hunting_energy_required)}

\* the villagers _conduct_cooking may choose the cook from
available_cooks(w) ==
    {name \in VillagerNames :
        w.villagers[name].energy > 300000 /\ ~w.villagers[name].injured}

\* the draws of the cooking: random.random() for the success and the draws
\* of the injury
CookingDraws == [roll : {500000, 900000}, injury : InjuryDraws]

\* _conduct_cooking
conduct_cooking(w, draw) ==
    IF w.food_storage <= 0 \/ available_cooks(w) = {} THEN w
    ELSE LET cook_name ==
                 best_scored(available_cooks(w),
                             LAMBDA name : skills[name].cooking)
             ingredients_used == Min(2 * ONE, w.food_storage)
             cooking_success == draw.roll < 800000
         IN  IF cooking_success /\ ingredients_used > 0
             THEN LET fed ==
                          [w EXCEPT
                              !.food_storage = @ - ingredients_used,
                              !.villagers =
                                  [name \in VillagerNames |->
                                      [@[name] EXCEPT
                                          !.hunger = Max(0, @ - 300000)]],
                              !.updates =
                                  Append(@, << cook_name, "cooking" >>),
                              !.resolutions =
                                  Append(@, [actor |-> cook_name,
                                             activity |-> "cooking",
                                             success |-> TRUE,
                                             used_before |->
                                                 w.villagers[cook_name]
                                                     .daily_energy_used,
                                             consumed |-> 0])]
                      hurt == with_injury_risk(fed, cook_name, "cooking",
                                               TRUE, draw.injury)
                  IN  [hurt EXCEPT
                          !.events =
                              Append(@, [type |-> "meal_prepared",
                                         actor |-> cook_name,
                                         injury_type |->
                                             injury_type(fed, cook_name,
                                                         "cooking", TRUE,
                                                         draw.injury)])]
             ELSE w

carpentry_energy_required == 250000

\* the villagers _conduct_carpentry may choose the carpenter from
available_carpenters(w) ==
    {name \in VillagerNames :
        can_work(w.villagers[name], carpentry_energy_required)}

\* carpentry_skill * (1.0 - fatigue_level * 0.3)
effective_skill(w, name) ==
    Mul(skills[name].carpentry,
        ONE - Mul(w.villagers[name].fatigue_level, 300000))

\* what the carpentry system returns to _conduct_carpentry: the result of
\* continue_project_work has 'days_remaining' and 'daily_progress', the
\* result of execute_carpentry_with_meaning_pressure has neither, nor
\* 'complexity'; lead is the lead carpenter of the project worked on, the
\* carpenter of the day when the project starts on that day, and helpers
\* the helpers the project was started with
CarpentryResults(carpenter_name) ==
    [is_multi_day : {FALSE}, success : BOOLEAN, daily_progress : {None},
     lead : {carpenter_name}, helpers : { << >> }]
    \cup
    UNION {
      [is_multi_day : {TRUE}, success : {success},
       daily_progress : IF success THEN {1200000} ELSE {300000},
       lead : {carpenter_name},
       helpers : { << >> } \cup
                 { << name >> : name \in VillagerNames \ {carpenter_name} }]
      : success \in BOOLEAN }

\* the draws of the carpentry: random.random() for the demand, the answer
\* of the carpentry system and the draws of the injuries
CarpentryDraws(carpenter_name) ==
    UNION {
      [result : {result}, injury : InjuryDraws,
       helper_injury : IF result.helpers # << >> THEN InjuryDraws
                       ELSE {NoInjuryDraw}]
      : result \in CarpentryResults(carpenter_name) }

\* the part of _conduct_carpentry after the carpentry system has answered
carpentry_work(w, carpenter_name, draw) ==
    LET result == draw.result
        carpenter == w.villagers[carpenter_name]
        complexity == IF result.is_multi_day THEN result.daily_progress
                      ELSE 500000
        energy_consumption ==
            Mul(carpentry_energy_required, ONE + complexity)
        worked ==
            [w EXCEPT
                !.villagers[carpenter_name] =
                    consume_energy(carpenter, "carpentry",
                                   energy_consumption),
                !.updates =
                    @ \o << << result.lead, "social_coordination" >>,
                            << carpenter_name, "carpentry" >> >>,
                !.resolutions =
                    Append(@, [actor |-> carpenter_name,
                               activity |-> "carpentry",
                               success |-> result.success,
                               used_before |-> carpenter.daily_energy_used,
                               consumed |-> energy_consumption])]
        hurt == with_injury_risk(worked, carpenter_name, "carpentry",
                                 result.success, draw.injury)
        helper_energy == Mul(energy_consumption, 700000)
        helped ==
            IF /\ result.is_multi_day
               /\ result.helpers # << >>
               /\ can_work(hurt.villagers[result.helpers[1]], helper_energy)
            THEN LET helper_name == result.helpers[1]
                     used ==
                         [hurt EXCEPT
                             !.villagers[helper_name] =
                                 consume_energy(@, "carpentry",
                                                helper_energy),
                             !.updates =
                                 Append(@, << helper_name, "carpentry" >>),
                             !.resolutions =
                                 Append(@, [actor |-> helper_name,
                                            activity |-> "carpentry",
                                            success |-> result.success,
                                            used_before |->
                                                hurt.villagers[helper_name]
                                                    .daily_energy_used,
                                            consumed |-> helper_energy])]
                 IN  with_injury_risk(used, helper_name, "construction",
                                      result.success, draw.helper_injury)
            ELSE hurt
    IN  [helped EXCEPT
            !.events =
                Append(@, [type |-> IF result.success
                                    THEN (IF ~result.is_multi_day
                                          THEN "construction_completed"
                                          ELSE "construction_progress")
                                    ELSE "construction_failed",
                           actor |-> carpenter_name,
                           injury_type |->
                               injury_type(worked, carpenter_name,
                                           "carpentry", result.success,
                                           draw.injury)])]

\* RelationshipCareSystem.simulate_daily_care: it prints what it does and
\* returns on every path without a value
simulate_daily_care == None

\* the villagers _conduct_caregiving looks after
patients(w) ==
    {name \in VillagerNames :
        w.villagers[name].injured \/ w.villagers[name].health < 700000}

\* the villagers _conduct_caregiving may choose the caregiver from
available_caregivers(w) ==
    {name \in VillagerNames :
        /\ ~w.villagers[name].injured
        /\ w.villagers[name].energy > 300000
        /\ w.villagers[name].health > 700000}

\* the draws of the care of one patient: random.random() for the recovery
\* and the draws of the caregiver's injury
CareDraws == [roll : {300000, 900000}, injury : InjuryDraws]

\* one pass of the loop over the patients in _conduct_caregiving
care_for(w, patient_name, draws, i) ==
    LET care_result == simulate_daily_care
    IN  IF care_result # None /\ Len(care_result) > 0
        THEN LET care_event == care_result[1]
                 draw == draws[i]
                 patient == w.villagers[patient_name]
                 recovery_success == patient.injured /\ draw.roll < 600000
                 care_success ==
                     recovery_success \/ care_event.effectiveness > 700000
                 cared ==
                     [w EXCEPT
                         !.villagers[patient_name] =
                             [@ EXCEPT
                                 !.health = Min(ONE, @ + 200000),
                                 !.injured = IF recovery_success THEN FALSE
                                             ELSE @],
                         !.updates =
                             Append(@, << care_event.caregiver,
                                          "caregiving" >>),
                         !.resolutions =
                             Append(@, [actor |-> care_event.caregiver,
                                        activity |-> "caregiving",
                                        success |-> care_success,
                                        used_before |-> 0,
                                        consumed |-> 0])]
                 hurt == with_injury_risk(cared, care_event.caregiver,
                                          "caregiving", care_success,
                                          draw.injury)
             IN  [hurt EXCEPT
                     !.events =
                         Append(@, [type |-> "care_provided",
                                    actor |-> care_event.caregiver,
                                    injury_type |->
                                        injury_type(cared,
                                                    care_event.caregiver,
                                                    "caregiving",
                                                    care_success,
                                                    draw.injury)])]
        ELSE w

RECURSIVE care_all(_, _, _, _)
\* the loop over the first two patients
care_all(w, list, draws, i) ==
    IF i > Len(list) THEN w
    ELSE care_all(care_for(w, list[i], draws, i), list, draws, i + 1)

\* patients[:2]
treated(w) ==
    LET list == InOrder(patients(w))
    IN  SubSeq(list, 1, Min(2, Len(list)))

\* the draws _conduct_caregiving makes: those of each pass of the loop that
\* has a care event to process
care_draws(w) ==
    IF \/ patients(w) = {}
       \/ available_caregivers(w) = {}
       \/ simulate_daily_care = None
    THEN { << >> }
    ELSE [1 .. Len(treated(w)) -> CareDraws]

\* _conduct_caregiving
conduct_caregiving(w, draws) ==
    IF patients(w) = {} \/ available_caregivers(w) = {} THEN w
    ELSE care_all(w, treated(w), draws, 1)

\* the draws of _afternoon_social_activities for the emergency: none, or
\* its type and its victim
EmergencyDraws ==
    { [emergency_type |-> "none", victim |-> "none"] }
    \cup [emergency_type : {"accident", "illness", "disaster"},
          victim : VillagerNames]

\* _handle_emergency
handle_emergency(w, draw) ==
    IF draw.emergency_type = "accident"
    THEN [w EXCEPT
             !.villagers[draw.victim] = injure_villager(@, FALSE, 0),
             !.incidents = @ + 1,
             !.events = Append(@, [type |-> "emergency_situation",
                                   actor |-> draw.victim,
                                   injury_type |-> "light"])]
    ELSE IF draw.emergency_type = "illness"
    THEN [w EXCEPT
             !.villagers[draw.victim].health = Max(200000, @ - 400000),
             !.incidents = @ + 1,
             !.events = Append(@, [type |-> "emergency_situation",
                                   actor |-> draw.victim,
                                   injury_type |-> "none"])]
    ELSE w

\* recovery_done if every night ended a severe injury
recovery_done_early(days) == TRUE

\* the test that ends a severe injury
recovery_done(days) == days <= 0

\* the villager after the loop body of _evening_recovery
evening_villager(villager, hunger_relief, roll) ==
    LET fed == [villager EXCEPT !.hunger = Max(0, @ - hunger_relief)]
        rested == IF fed.health < ONE /\ ~fed.injured
                  THEN [fed EXCEPT !.health = Min(ONE, @ + 100000)]
                  ELSE fed
        days == rested.injury_recovery_days - 1
        healed ==
            IF rested.severe_injury
            THEN (IF recovery_done(days)
                  THEN [rested EXCEPT
                           !.injury_recovery_days = days,
                           !.severe_injury = FALSE,
                           !.injured = FALSE,
                           !.health = Min(ONE, @ + 300000)]
                  ELSE [rested EXCEPT !.injury_recovery_days = days])
            ELSE IF rested.injured /\ roll < 300000
            THEN [rested EXCEPT
                     !.injured = FALSE,
                     !.health = Min(ONE, @ + 200000)]
            ELSE rested
    IN  reset_daily_work(healed)

\* the event the loop body of _evening_recovery appends for the villager
evening_event(villager, roll) ==
    IF villager.severe_injury
    THEN (IF recovery_done(villager.injury_recovery_days - 1)
          THEN "severe_injury_recovery" ELSE "none")
    ELSE IF villager.injured /\ roll < 300000 THEN "injury_recovery"
    ELSE "none"

\* the draws of _evening_recovery: random.random() for each light injury
EveningDraws == [VillagerNames -> {100000, 900000}]

\* _evening_recovery
evening_recovery(w, rolls) ==
    LET daily_food_consumption == Cardinality(VillagerNames) * 300000
        enough == w.food_storage >= daily_food_consumption
        hunger_relief ==
            IF enough THEN 200000
            ELSE (w.food_storage \div Cardinality(VillagerNames)) \div 2
        recoveries ==
            SelectSeq([i \in DOMAIN VillagerOrder |->
                          [type |-> evening_event(
                                        w.villagers[VillagerOrder[i]],
                                        rolls[VillagerOrder[i]]),
                           actor |-> VillagerOrder[i],
                           injury_type |-> "none"]],
                      LAMBDA event : event.type # "none")
    IN  [w EXCEPT
            !.food_storage = IF enough THEN @ - daily_food_consumption
                             ELSE 0,
            !.villagers =
                [name \in VillagerNames |->
                    evening_villager(@[name], hunger_relief, rolls[name])],
            !.events =
                (IF enough THEN @
                 ELSE Append(@, [type |-> "food_shortage", actor |-> "none",
                                 injury_type |-> "none"]))
                \o recoveries]

----------------------------------------------------------------------------
(* The inertia engine: calls *)

\* any caller computes a meaning pressure
Calculate ==
    /\ n_calls < MaxCalls
    /\ \E person \in Persons, activity \in ActivityKeys, context \in Contexts :
           calculate_meaning_pressure(person, activity, context)
    /\ n_calls' = n_calls + 1
    /\ UNCHANGED << fixed, trace >>
    /\ UNCHANGED << rumor_vars, adapter_vars, carpentry_vars, village_vars >>

\* any caller updates an inertia
Update ==
    /\ n_calls < MaxCalls
    /\ \E person \in Persons, activity \in ActivityKeys, context \in Contexts :
           update_alignment_inertia(person, activity, context)
    /\ n_calls' = n_calls + 1
    /\ UNCHANGED << fixed, trace >>
    /\ UNCHANGED << rumor_vars, adapter_vars, carpentry_vars, village_vars >>

Init ==
    /\ EngineInit
    /\ fixed = NoFixed
    /\ trace = << >>
    /\ RumorInit
    /\ AdapterInit
    /\ CarpentryInit
    /\ VillageInit

Next == Calculate \/ Update

Spec == Init /\ [][Next]_vars

----------------------------------------------------------------------------
(* One person repeats one call: one activity under one context *)

FixedInit ==
    /\ EngineInit
    /\ fixed \in [activity : ActivityKeys, context : FixedContexts,
                 op : {"calculate", "update"}]
    /\ trace = << >>
    /\ RumorInit
    /\ AdapterInit
    /\ CarpentryInit
    /\ VillageInit

FixedCalculate ==
    /\ fixed.op = "calculate"
    /\ n_calls < MaxFixedCalls
    /\ calculate_meaning_pressure("A", fixed.activity, fixed.context)
    /\ n_calls' = n_calls + 1
    /\ UNCHANGED << fixed, trace >>
    /\ UNCHANGED << rumor_vars, adapter_vars, carpentry_vars, village_vars >>

FixedUpdate ==
    /\ fixed.op = "update"
    /\ n_calls < MaxFixedCalls
    /\ update_alignment_inertia("A", fixed.activity, fixed.context)
    /\ n_calls' = n_calls + 1
    /\ trace' = IF last'.raised = "none" THEN Append(trace, last'.after)
                ELSE trace
    /\ UNCHANGED fixed
    /\ UNCHANGED << rumor_vars, adapter_vars, carpentry_vars, village_vars >>

FixedNext == FixedCalculate \/ FixedUpdate

SpecFixed == FixedInit /\ [][FixedNext]_vars

----------------------------------------------------------------------------
(* The rumor system over the days of long_term_simulation *)

RumorState ==
    [active_rumors |-> active_rumors, rumor_history |-> rumor_history,
     trust_ledger |-> trust_ledger, created_on |-> created_on]

\* a villager tells another about a third
Tell(interactions, confidence_draws) ==
    /\ \E i \in interactions, gate \in GateDraws,
          confidence_draw \in confidence_draws :
         \E content \in Range(content_templates(i.rumor_type, i.positive)) :
           LET made == create_rumor_from_interaction(
                           RumorState, day, i.speaker, i.listener, i.subject,
                           i.rumor_type, i.positive, i.intensity, i.context,
                           gate, confidence_draw, content)
           IN  /\ active_rumors' = made.rs.active_rumors
               /\ rumor_history' = made.rs.rumor_history
               /\ trust_ledger' = made.rs.trust_ledger
               /\ created_on' = made.rs.created_on
               /\ rumor_last' =
                      [NoRumorCall EXCEPT !.op = "create",
                          !.speaker = i.speaker, !.gate = gate,
                          !.result = made.result]
    /\ UNCHANGED << village_reputation, day >>
    /\ UNCHANGED << engine_vars, adapter_vars, carpentry_vars, village_vars >>

CreateRumor ==
    /\ Len(rumor_history) < MaxRumors
    /\ Tell(Interactions, ConfidenceDraws)

\* spread_rumors_through_interactions(villager_names, relationships)
SpreadRumors ==
    /\ Len(rumor_history) + Min(3, Len(active_rumors)) <= MaxRumors
    /\ IF active_rumors = << >>
       THEN /\ rumor_last' = [NoRumorCall EXCEPT !.op = "spread"]
            /\ UNCHANGED << active_rumors, rumor_history, trust_ledger,
                            created_on >>
       ELSE \E sample \in Samples(active_rumors),
               relationships \in RelationshipMaps :
              \E st \in SpreadRounds(
                            [rs |-> RumorState, log |-> << >>,
                             raised |-> "none"],
                            day, sample, relationships) :
                /\ active_rumors' = st.rs.active_rumors
                /\ rumor_history' = st.rs.rumor_history
                /\ trust_ledger' = st.rs.trust_ledger
                /\ created_on' = st.rs.created_on
                /\ rumor_last' =
                       [NoRumorCall EXCEPT !.op = "spread", !.log = st.log,
                           !.raised = st.raised]
    /\ UNCHANGED << village_reputation, day >>
    /\ UNCHANGED << engine_vars, adapter_vars, carpentry_vars, village_vars >>

\* the end of a day of long_term_simulation: the reputations are updated,
\* old rumors decay and weak ones leave the active set
DayEnds ==
    /\ village_reputation' =
           update_reputation_from_rumors(village_reputation, rumor_history,
                                         active_rumors)
    /\ rumor_history' = history_after_decay(rumor_history, active_rumors)
    /\ active_rumors' = active_after_decay(rumor_history, active_rumors)
    /\ day' = day + 1
    /\ rumor_last' = [NoRumorCall EXCEPT !.op = "end_of_day"]
    /\ UNCHANGED << trust_ledger, created_on >>
    /\ UNCHANGED << engine_vars, adapter_vars, carpentry_vars, village_vars >>

EndOfDay ==
    /\ day < MaxDay
    /\ DayEnds

RumorNext == CreateRumor \/ SpreadRumors \/ EndOfDay

SpecRumor == Init /\ [][RumorNext]_vars

----------------------------------------------------------------------------
(* The long run: one thing is told over many days *)

TellAgain ==
    /\ Len(rumor_history) < MaxLongRumors
    /\ Tell(LongInteractions, {900000})

EndOfLongDay ==
    /\ day < MaxLongDay
    /\ DayEnds

LongNext == TellAgain \/ EndOfLongDay

SpecLong == Init /\ [][LongNext]_vars

----------------------------------------------------------------------------
(* The SSD adapter: calls *)

\* add_villager(villager_name, personality): a villager is registered once
AddVillager ==
    /\ \E villager_name \in AdapterVillagers :
         /\ villager_name \notin DOMAIN subjective_boundaries
         /\ subjective_boundaries' =
                Store(subjective_boundaries, villager_name, EmptyBoundary)
         /\ territory_boundaries' =
                initialize_npc_boundaries(territory_boundaries, villager_name)
         /\ adapter_last' =
                [NoAdapterCall EXCEPT !.op = "add_villager",
                    !.npc_id = villager_name]
    /\ UNCHANGED n_experiences
    /\ UNCHANGED << engine_vars, rumor_vars, carpentry_vars, village_vars >>

\* _update_subjective_boundary(npc_id, target_id, valence, interaction_type)
RecordExperience ==
    /\ n_experiences < MaxExperiences
    /\ \E npc_id \in AdapterVillagers, target_id \in TrustTargets,
          valence \in Valences :
         LET after == update_subjective_boundary(
                          subjective_boundaries, territory_boundaries,
                          npc_id, target_id, valence)
         IN  /\ subjective_boundaries' = after.sb
             /\ territory_boundaries' = after.tb
             /\ adapter_last' =
                    [NoAdapterCall EXCEPT !.op = "record_experience",
                        !.npc_id = npc_id, !.target_id = target_id,
                        !.valence = valence]
    /\ n_experiences' = n_experiences + 1
    /\ UNCHANGED << engine_vars, rumor_vars, carpentry_vars, village_vars >>

\* calculate_trust_level(evaluator, target, domain)
TrustQuery ==
    /\ \E evaluator \in AdapterVillagers, target \in TrustTargets,
          domain \in TrustDomains :
         adapter_last' =
             [NoAdapterCall EXCEPT !.op = "calculate_trust_level",
                 !.npc_id = evaluator, !.target_id = target,
                 !.domain = domain,
                 !.result = calculate_trust_level(
                                subjective_boundaries, territory_boundaries,
                                evaluator, target, domain)]
    /\ UNCHANGED << subjective_boundaries, territory_boundaries,
                    n_experiences >>
    /\ UNCHANGED << engine_vars, rumor_vars, carpentry_vars, village_vars >>

AdapterNext == AddVillager \/ RecordExperience \/ TrustQuery

SpecAdapter == Init /\ [][AdapterNext]_vars

----------------------------------------------------------------------------
(* The carpentry system: the carpentry of a day *)

\* continue_project_work on the object at position i of the ongoing list,
\* with _complete_project when the project is complete (the reputation
\* bonus and the building quality it adds are kept outside the lists)
continue_project_work(projects, i, draws) ==
    LET worked == worked_project(projects[i], draws)
        project == worked.project
        updated == [projects EXCEPT ![i] = worked]
        is_completed == is_complete(worked)
    IN  /\ update_alignment_inertia(
               worked.lead_carpenter, "social_coordination",
               multi_day_meaning_context(worked, draws))
        /\ n_calls' = n_calls + 1
        /\ UNCHANGED << fixed, trace >>
        /\ IF last'.raised # "none"
           THEN \* the exception leaves the call after the day was counted
                /\ ongoing_projects' = updated
                /\ UNCHANGED completed_projects
                /\ carpentry_last' =
                       [NoCarpentryCall EXCEPT !.op = "continue",
                           !.id = worked.id, !.raised = last'.raised]
           ELSE /\ ongoing_projects' =
                       IF is_completed THEN list_remove(updated, worked)
                       ELSE updated
                /\ completed_projects' =
                       IF is_completed
                       THEN Append(completed_projects, worked)
                       ELSE completed_projects
                /\ carpentry_last' =
                       [op |-> "continue", id |-> worked.id,
                        raised |-> "none", success |-> draws.success,
                        daily_progress |->
                            worked.daily_progress[Len(worked.daily_progress)],
                        total_progress |-> get_completion_percentage(worked),
                        quality_so_far |-> worked.quality_accumulation,
                        project_name |-> project.name,
                        days_remaining |->
                            project.total_work_days - worked.days_worked,
                        is_completed |-> is_completed,
                        carpentry_inertia |-> last'.after,
                        materials_used_today |->
                            project.materials_required
                                \div project.total_work_days,
                        final_quality |->
                            IF is_completed
                            THEN worked.quality_accumulation
                                     \div project.total_work_days
                            ELSE None]

\* a free carpenter gets a request for a project of several days: the
\* project is started and its first day is worked
StartProject ==
    /\ current_day <= MaxCarpentryDays
    /\ project_counter < MaxProjects
    /\ \E carpenter_name \in Carpenters, request \in Requests :
         /\ ~carpenter_busy(ongoing_projects, carpenter_name)
         /\ \E selected_project \in select_project_for_request(request),
               project \in select_project_for_request(request) :
              /\ selected_project.total_work_days > 1
              /\ \E helpers \in
                        helper_choices(selected_project, carpenter_name) :
                   LET ongoing == new_ongoing(project_counter + 1, project,
                                              carpenter_name, helpers,
                                              current_day)
                       started == Append(ongoing_projects, ongoing)
                   IN  \E draws \in WorkDraws(ongoing) :
                         continue_project_work(started, Len(started), draws)
    /\ project_counter' = project_counter + 1
    /\ current_day' = current_day + 1
    /\ UNCHANGED << rumor_vars, adapter_vars, village_vars >>

\* a busy carpenter works on the first project they lead or help with
ContinueProject ==
    /\ current_day <= MaxCarpentryDays
    /\ \E carpenter_name \in Carpenters :
         /\ carpenter_busy(ongoing_projects, carpenter_name)
         /\ LET Mine(i) ==
                    \/ ongoing_projects[i].lead_carpenter = carpenter_name
                    \/ carpenter_name \in Range(ongoing_projects[i].helpers)
                first == CHOOSE i \in DOMAIN ongoing_projects :
                             /\ Mine(i)
                             /\ \A j \in 1 .. (i - 1) : ~Mine(j)
            IN  \E draws \in WorkDraws(ongoing_projects[first]) :
                  continue_project_work(ongoing_projects, first, draws)
    /\ current_day' = current_day + 1
    /\ UNCHANGED project_counter
    /\ UNCHANGED << rumor_vars, adapter_vars, village_vars >>

CarpentryNext == StartProject \/ ContinueProject

SpecCarpentry == Init /\ [][CarpentryNext]_vars

----------------------------------------------------------------------------
(* Properties of the inertia engine *)

InertiaInRange(x) == 50000 <= x /\ x <= 10000000

\* C1: after any number of update_inertia calls the stored inertia of every
\* (agent, activity) is in [0.05, 10.0]
C1_InertiaBounds ==
    \A k \in DOMAIN alignment_inertia : InertiaInRange(alignment_inertia[k])

ScenarioRun ==
    /\ fixed.activity = "hunting"
    /\ fixed.context = CtxScenario
    /\ fixed.op = "update"

\* the inertia before call i of the repeated update
TraceBefore(i) == IF i = 1 THEN 0 ELSE trace[i - 1]

\* C2 as stated: from inertia 0, five hunting updates with the scenario
\* context raise the inertia strictly on each of the first three calls, and
\* the growth per call shrinks afterwards
C2_ScenarioGrows ==
    (ScenarioRun /\ Len(trace) = 5) =>
        /\ \A i \in 1..3 : trace[i] > TraceBefore(i)
        /\ trace[5] - trace[4] < trace[3] - trace[2]

\* C2 as amended: the scenario context is TRIVIAL for hunting (0.6 is not
\* above the 0.6 threshold); the inertia rises on the first call only, from 0
\* to the floor 0.05, and every later call leaves it at 0.05
C2_ScenarioStaysAtFloor ==
    ScenarioRun =>
        /\ \A i \in 1..Len(trace) : trace[i] = 50000
        /\ last.op = "update" => last.level = "TRIVIAL"

C2_Witness == ScenarioRun /\ Len(trace) = 5 /\ trace[5] = 50000

Completed == last.op # "none" /\ last.raised = "none"

\* C3 as stated: for every activity a context with success and emergency is
\* classified PROFOUND
C3_EmergencyProfoundEverywhere ==
    (Completed /\ Get(last.context, "success", FALSE)
               /\ Get(last.context, "emergency", FALSE))
        => last.level = "PROFOUND"

\* the context without its emergency key
WithoutEmergency(context) ==
    [key \in DOMAIN context \ {"emergency"} |-> context[key]]

\* C3 as amended: for hunting a context with success and emergency is
\* classified PROFOUND (base pressure 2.0) before any other hunting rule; for
\* every other activity the emergency flag does not enter the classification
C3_EmergencyProfoundForHunting ==
    Completed =>
        /\ (last.activity = "hunting"
              /\ Get(last.context, "success", FALSE)
              /\ Get(last.context, "emergency", FALSE))
            => (last.level = "PROFOUND" /\ base_pressure[last.level] = 2000000)
        /\ last.activity # "hunting"
            => last.level = assess_meaning_level(last.activity,
                                                 WithoutEmergency(last.context))

C3_Witness ==
    /\ Completed
    /\ last.activity = "hunting"
    /\ last.context = CtxCrisis
    /\ last.level = "PROFOUND"

\* the same context during an emergency
WithEmergency(context) ==
    [key \in DOMAIN context \cup {"emergency"} |->
        IF key = "emergency" THEN TRUE ELSE context[key]]

\* the pairs (ROUTINE context, the same context classified PROFOUND by its
\* emergency) of an activity
RoutineProfoundPairs(activity) ==
    {c \in Contexts :
        /\ ~LogRaises(c)
        /\ assess_meaning_level(activity, c) = "ROUTINE"
        /\ assess_meaning_level(activity, WithEmergency(c)) = "PROFOUND"}

\* the inertia an update of k under context would store in the current state
WouldStore(k, context) ==
    new_inertia(Lookup(alignment_inertia, k),
                meaning_pressure(k[2], context, repetition_counter[k]),
                k[2], context, TimeDecayDefault)

\* the alignment work is positive: rho * (G0 + g * kappa) < 1
PositiveWork(k) ==
    Mul(activity_resistance[k[2]],
        base_alignment[k[2]] + Mul(300000, Lookup(alignment_inertia, k))) < ONE

\* C4 as stated: from the same state the PROFOUND call raises the stored
\* inertia by more than the otherwise identical ROUTINE call
C4_ProfoundGainsMore ==
    \A person \in Persons, activity \in ActivityType :
        \A c \in RoutineProfoundPairs(activity) :
            LET k == << person, activity >>
            IN  WouldStore(k, WithEmergency(c)) > WouldStore(k, c)

\* C4 as amended: while the alignment work is positive, the PROFOUND call
\* stores at least the inertia the ROUTINE call stores, and strictly more
\* unless the ROUTINE result is clamped to 0.05 or 10.0
C4_ProfoundGainsMoreWhileWorkPositive ==
    \A person \in Persons, activity \in ActivityType :
        \A c \in RoutineProfoundPairs(activity) :
            LET k == << person, activity >>
                routine == WouldStore(k, c)
                profound == WouldStore(k, WithEmergency(c))
            IN  PositiveWork(k) =>
                    /\ profound >= routine
                    /\ (50000 < routine /\ routine < 10000000)
                           => profound > routine

C4_Witness ==
    \E person \in Persons :
        LET k == << person, "hunting" >>
        IN  /\ Lookup(alignment_inertia, k) > 50000
            /\ PositiveWork(k)
            /\ CtxRoutine \in RoutineProfoundPairs("hunting")
            /\ WouldStore(k, CtxEmergency) > WouldStore(k, CtxRoutine)
            /\ WouldStore(k, CtxRoutine) > 50000

\* the number of meaning-pressure calculations a call made
Calculations(call) ==
    IF call.op = "update" /\ call.raised = "none" THEN 2 ELSE 1

\* C5: every meaning-pressure calculation for (agent, activity) uses the
\* counter as it was and then adds exactly one to it; the counter is never
\* reset or decreased, and no other pair's counter changes
C5_RepetitionCounterStep ==
    [][LET k == << last'.person, last'.activity >>
       IN  /\ repetition_counter'[k] =
                  repetition_counter[k] + Calculations(last')
           /\ \A o \in Pairs \ {k} :
                  repetition_counter'[o] = repetition_counter[o]
           /\ last'.count = repetition_counter[k]
           /\ last'.raised # "ValueError" =>
                  last'.pressure =
                      meaning_pressure(last'.activity, last'.context,
                                       repetition_counter[k])
           /\ (last'.op = "update" /\ last'.raised = "none") =>
                  LET h == experience_history'[k]
                  IN  h[Len(h)].meaning_pressure =
                          meaning_pressure(last'.activity, last'.context,
                                           repetition_counter[k] + 1)
      ]_vars

C5_Witness ==
    \E k \in Pairs, o \in Pairs :
        /\ k # o
        /\ repetition_counter[k] = 2
        /\ repetition_counter[o] = 1
        /\ last.person = o[1] /\ last.activity = o[2]

\* base * complexity * social * 0.3, multiplied in the order of the code
PressureFloor(activity, context) ==
    Mul(Mul(Mul(base_pressure[assess_meaning_level(activity, context)],
                assess_activity_complexity(activity, context)),
            300000),
        calculate_social_impact(activity, context))

\* C6: under a fixed context the successive meaning pressures of a pair never
\* increase and never fall below base * complexity * social * 0.3
C6_PressureNonIncreasing ==
    [][(last'.raised = "none" /\ last'.op # "none") =>
          /\ last'.pressure >= PressureFloor(last'.activity, last'.context)
          /\ last.op # "none" => last'.pressure <= last.pressure
          /\ last'.op = "update" =>
                 LET k == << last'.person, last'.activity >>
                     h == experience_history'[k]
                 IN  /\ h[Len(h)].meaning_pressure <= last'.pressure
                     /\ h[Len(h)].meaning_pressure
                            >= PressureFloor(last'.activity, last'.context)
      ]_vars

\* the pressure has decayed all the way to its floor, above the 0.05 minimum
C6_Witness ==
    /\ fixed.op = "calculate"
    /\ last.op = "calculate"
    /\ last.raised = "none"
    /\ last.count > 0
    /\ last.pressure = PressureFloor(last.activity, last.context)
    /\ last.pressure > 50000

\* C7: meaning_pressure and update_inertia never raise, whatever the
\* activity value and the context
C7_NeverRaises == last.raised = "none"

----------------------------------------------------------------------------
(* Properties of the rumor system *)

\* the age of a rumor in days (ticks) at the end of the current day
AgeInDays(ref) == day - created_on[ref + 1]

\* C8: at the end of every day an active rumor older than 7 ticks loses 10%
\* of its intensity; it leaves the active set once its intensity is below
\* 0.2, and a rumor that has left the active set never returns
C8_OldRumorsDecay ==
    [][rumor_last'.op = "end_of_day" =>
          /\ \A ref \in Range(active_rumors) :
                 AgeInDays(ref) > 7 =>
                     LET faded == decayed_intensity(
                                      RumorAt(rumor_history, ref).intensity)
                     IN  /\ RumorAt(rumor_history', ref).intensity = faded
                         /\ (ref \in Range(active_rumors'))
                                = ~(faded < 200000)
          /\ \A ref \in 0..(Len(rumor_history) - 1) :
                 ref \notin Range(active_rumors)
                     => ref \notin Range(active_rumors')
      ]_vars

\* the entries of the log of a spread whose personality-gated roll succeeded
Rolled(log) == {i \in DOMAIN log : log[i].should_spread}

\* the sampled rumor of a log entry is as it was before the spread
SampledUnchanged(entry) ==
    /\ RumorAt(rumor_history', entry.rumor) = RumorAt(rumor_history, entry.rumor)
    /\ entry.rumor \in Range(active_rumors')

\* the rumor a log entry reports as created derives from the sampled one
DerivedFromSampled(entry) ==
    LET old == RumorAt(rumor_history, entry.rumor)
        new == RumorAt(rumor_history', entry.result)
    IN  /\ entry.result >= Len(rumor_history)
        /\ entry.result \in Range(active_rumors')
        /\ new.target_name = old.target_name
        /\ new.rumor_type = old.rumor_type
        /\ new.positive = old.positive
        /\ new.source_name = entry.knower
        /\ new.intensity = Mul(old.intensity, 900000)
        /\ new.intensity < old.intensity

\* C9 as stated: whenever the roll of a spread succeeds, a derived rumor with
\* the same subject, category and polarity and 90% of the intensity is
\* created, and the sampled rumor is left unchanged
C9_RollCreatesDerivedRumor ==
    [][rumor_last'.op = "spread" =>
          \A i \in Rolled(rumor_last'.log) :
              LET entry == rumor_last'.log[i]
              IN  /\ entry.result # None
                  /\ DerivedFromSampled(entry)
                  /\ SampledUnchanged(entry)
      ]_vars

\* C9 as amended: when the roll succeeds create_from_interaction is called,
\* and it creates the derived rumor only if its own gossip-gate draw passes
\* for the knower too, else nothing is created; a rumor it creates has the
\* same subject, category and polarity and 90% of the sampled intensity; the
\* sampled rumor is left unchanged either way
C9_RollAndGateCreateDerivedRumor ==
    [][rumor_last'.op = "spread" =>
          /\ \A i \in DOMAIN rumor_last'.log :
                 LET entry == rumor_last'.log[i]
                 IN  /\ SampledUnchanged(entry)
                     /\ (entry.result # None) =
                            (/\ entry.should_spread
                             /\ ~(entry.gate > gossip_chance(entry.knower)))
                     /\ entry.result # None => DerivedFromSampled(entry)
          /\ Len(rumor_history') = Len(rumor_history)
                 + Cardinality({i \in DOMAIN rumor_last'.log :
                                   rumor_last'.log[i].result # None})
      ]_vars

\* one spread in which one roll led to a rumor and another was stopped by
\* the gate
C9_Witness ==
    /\ rumor_last.op = "spread"
    /\ \E i, j \in Rolled(rumor_last.log) :
           /\ rumor_last.log[i].result # None
           /\ rumor_last.log[j].result = None

\* C10: create_from_interaction makes a rumor only if the draw is not above
\* the gossip propensity of the speaker; otherwise it returns None and leaves
\* the active set, the history, the reputations and the trust ledger as
\* they were
C10_GateAndFrame ==
    [][rumor_last'.op = "create" =>
          LET chance == gossip_chance(rumor_last'.speaker)
          IN  /\ rumor_last'.result # None => rumor_last'.gate <= chance
              /\ rumor_last'.gate > chance => rumor_last'.result = None
              /\ rumor_last'.result = None =>
                     UNCHANGED << active_rumors, rumor_history,
                                  village_reputation, trust_ledger >>
              /\ rumor_last'.result # None =>
                     /\ Len(rumor_history') = Len(rumor_history) + 1
                     /\ Len(trust_ledger') = Len(trust_ledger) + 1
                     /\ active_rumors' =
                            Append(active_rumors, rumor_last'.result)
      ]_vars

\* a draw above the propensity returned None while rumors and reputations
\* were there to be kept
C10_Witness ==
    /\ rumor_last.op = "create"
    /\ rumor_last.result = None
    /\ rumor_last.gate > gossip_chance(rumor_last.speaker)
    /\ active_rumors # << >>
    /\ trust_ledger # << >>

\* C11: every rumor in the active set or the history log has its intensity
\* and its confidence in [0, 1]
C11_RumorRanges ==
    \A i \in DOMAIN rumor_history :
        /\ 0 <= rumor_history[i].intensity
        /\ rumor_history[i].intensity <= ONE
        /\ 0 <= rumor_history[i].confidence
        /\ rumor_history[i].confidence <= ONE

\* the rumor is the one it was, whatever its intensity has become
SameRumor(new, old) ==
    [new EXCEPT !.intensity = 0] = [old EXCEPT !.intensity = 0]

\* C12: the history log only grows at its end: every rumor ever created
\* stays in it at its place in creation order, also once it has left the
\* active set, and every active rumor is in the log
C12_HistoryAppendOnly ==
    [][/\ Len(rumor_history') >= Len(rumor_history)
       /\ \A i \in DOMAIN rumor_history :
              /\ SameRumor(rumor_history'[i], rumor_history[i])
              /\ rumor_history'[i].creation_time = i - 1
       /\ \A ref \in Range(active_rumors') :
              /\ ref + 1 \in DOMAIN rumor_history'
              /\ RumorAt(rumor_history', ref).creation_time = ref
      ]_vars

\* a rumor has left the active set and is still in the log
C12_Witness ==
    /\ rumor_last.op = "end_of_day"
    /\ \E i \in DOMAIN rumor_history :
           /\ (i - 1) \notin Range(active_rumors)
           /\ rumor_history[i].intensity < 200000
    /\ active_rumors # << >>

\* the target update_reputation_from_rumors computes for a reputation
ReputationTarget(name, rumor_type) ==
    LET sums == WeightedSum(rumor_history, active_rumors, name, rumor_type)
    IN  IF sums.total_weight > 0
        THEN Div(sums.weighted_sum, sums.total_weight) ELSE None

\* C13: one update of the reputations moves a stored reputation by at most
\* 30% of the gap between its old value and the rumor-weighted target (to
\* the last digits of the arithmetic), towards the target, and leaves a
\* reputation without active rumors as it was
C13_ReputationSmoothing ==
    [][rumor_last'.op = "end_of_day" =>
          \A name \in villager_names, rumor_type \in RumorType :
              LET old == village_reputation[name][rumor_type]
                  new == village_reputation'[name][rumor_type]
                  target == ReputationTarget(name, rumor_type)
              IN  IF target = None THEN new = old
                  ELSE /\ Abs(new - old) <= Mul(300000, Abs(target - old)) + 2
                       /\ (target >= old) => (new >= old - 2)
                       /\ (target <= old) => (new <= old + 2)
      ]_vars

\* one reputation has moved up and another down
C13_Witness ==
    /\ rumor_last.op = "end_of_day"
    /\ \E name \in villager_names, rumor_type \in RumorType :
           village_reputation[name][rumor_type] > 550000
    /\ \E name \in villager_names, rumor_type \in RumorType :
           village_reputation[name][rumor_type] < 450000

----------------------------------------------------------------------------
(* C14 *)

\* the ledger entries a step has pushed, with the rumor each belongs to
NewLedgerEntries ==
    (Len(trust_ledger) + 1) .. Len(trust_ledger')

\* C14: every rumor creation pushes a trust-ledger update whose size is
\* intensity * confidence * 0.3, strictly weaker than the update a
\* first-hand outcome of the same polarity and the full effectiveness
\* intensity * confidence is recorded with.
C14_RumorEffectScaled ==
    [][\A i \in NewLedgerEntries :
          LET rumor == rumor_history'[i]
              entry == trust_ledger'[i]
              effect_strength == Mul(rumor.intensity, rumor.confidence)
          IN  /\ i \in DOMAIN rumor_history'
              /\ Abs(entry.valence) = Mul(effect_strength, 300000)
              /\ effect_strength > 0 =>
                     Abs(entry.valence) <
                         Abs(interaction_valence(rumor.positive,
                                                 effect_strength))]_vars

----------------------------------------------------------------------------
(* C15 - C18: subjective boundaries and trust *)

\* the boundary object an experience of the villager is recorded in
RecordedBoundary(npc_id) ==
    IF npc_id \in DOMAIN subjective_boundaries
    THEN subjective_boundaries[npc_id]
    ELSE territory_boundaries[npc_id]

\* the key the experience with a target is recorded under
RecordedKey(npc_id, target_id) ==
    IF npc_id \in DOMAIN subjective_boundaries
    THEN person_key(target_id) ELSE target_id

\* boundary_strength(agent, target_id) in the dicts sb and tb, 0 if unseen
StrengthOf(sb, tb, npc_id, target_id) ==
    IF npc_id \in DOMAIN sb
    THEN Lookup(sb[npc_id].boundary_strength, person_key(target_id))
    ELSE IF npc_id \in DOMAIN tb
         THEN Lookup(tb[npc_id].boundary_strength, target_id)
         ELSE 0

\* C15: after every record_experience call the target is in the inner set
\* iff the strength is above 0.3, in the outer set iff it is below -0.3 and
\* in neither set otherwise (so never in both).
C15_ClassificationMatchesStrength ==
    adapter_last.op = "record_experience" =>
        LET boundary == RecordedBoundary(adapter_last.npc_id)
            key == RecordedKey(adapter_last.npc_id, adapter_last.target_id)
            strength == boundary.boundary_strength[key]
        IN  /\ (key \in boundary.inner_objects) <=> (strength > 300000)
            /\ (key \in boundary.outer_objects) <=> (strength < -300000)

\* C16: for every evaluator, target and domain the trust is in [0, 1], at
\* the extreme strengths -1 and +1 and without any recorded boundary too,
\* and so is the trust every query has returned.
C16_TrustRange ==
    /\ \A evaluator \in AdapterVillagers, target \in TrustTargets,
          domain \in TrustDomains :
         LET trust == calculate_trust_level(
                          subjective_boundaries, territory_boundaries,
                          evaluator, target, domain)
         IN  0 <= trust /\ trust <= ONE
    /\ adapter_last.op = "calculate_trust_level" =>
           0 <= adapter_last.result /\ adapter_last.result <= ONE

\* a cooperation query at strength +1 was cut back to 1.0, a query at
\* strength -1 was answered, and so was one without a boundary
C16_Witness ==
    /\ adapter_last.op = "calculate_trust_level"
    /\ adapter_last.domain = "cooperation"
    /\ adapter_last.result = ONE
    /\ StrengthOf(subjective_boundaries, territory_boundaries,
                  adapter_last.npc_id, adapter_last.target_id) = ONE
    /\ \E other \in AdapterVillagers :
         StrengthOf(subjective_boundaries, territory_boundaries,
                    other, adapter_last.target_id) = -ONE

\* the evaluator has a recorded strength toward the target
HasRecorded(evaluator, target) ==
    \/ /\ evaluator \in DOMAIN subjective_boundaries
       /\ person_key(target) \in
              DOMAIN subjective_boundaries[evaluator].boundary_strength
    \/ /\ evaluator \in DOMAIN territory_boundaries
       /\ target \in DOMAIN territory_boundaries[evaluator].boundary_strength

\* the strength the evaluator has recorded toward the target
RecordedStrength(evaluator, target) ==
    IF /\ evaluator \in DOMAIN subjective_boundaries
       /\ person_key(target) \in
              DOMAIN subjective_boundaries[evaluator].boundary_strength
    THEN subjective_boundaries[evaluator].boundary_strength[person_key(target)]
    ELSE territory_boundaries[evaluator].boundary_strength[target]

\* clamp(m * f(s), 0, 1) as the specification states it
StatedTrust(s, domain) ==
    LET f == IF s > 300000 THEN 700000 + (s \div 4)
             ELSE IF s < -300000 THEN 300000 + Max(0, (s + ONE) \div 5)
                  ELSE 500000 + ((3 * s) \div 10)
        scaled == CASE domain = "cooperation" -> (11 * f) \div 10
                    [] domain = "resource_sharing" -> (9 * f) \div 10
                    [] OTHER -> f
    IN  Max(0, Min(ONE, scaled))

\* C17: for an evaluator with recorded strength s toward the target, the
\* trust is clamp(m * f(s), 0, 1) with f(s) = 0.7 + 0.25 s above 0.3,
\* 0.3 + max(0, (s + 1.0) * 0.2) below -0.3 and 0.5 + 0.3 s otherwise, and
\* m = 1.1 for cooperation, 0.9 for resource_sharing, 1.0 otherwise.
C17_TrustFormula ==
    \A evaluator \in AdapterVillagers, target \in TrustTargets,
       domain \in TrustDomains :
        HasRecorded(evaluator, target) =>
            calculate_trust_level(subjective_boundaries, territory_boundaries,
                                  evaluator, target, domain)
                = StatedTrust(RecordedStrength(evaluator, target), domain)

\* the villager has a strength stored for the target in the dicts sb and tb
IsSeen(sb, tb, npc_id, target_id) ==
    IF npc_id \in DOMAIN sb
    THEN person_key(target_id) \in DOMAIN sb[npc_id].boundary_strength
    ELSE /\ npc_id \in DOMAIN tb
         /\ target_id \in DOMAIN tb[npc_id].boundary_strength

\* C18: every recorded strength is in [-1, 1], and each record_experience
\* call sets the strength to clamp(old + 0.15 * valence, -1, 1), where old
\* is 0 for a target not seen before.
C18_StrengthClamped ==
    [][adapter_last'.op = "record_experience"
       /\ n_experiences' = n_experiences + 1 =>
          LET npc_id == adapter_last'.npc_id
              target_id == adapter_last'.target_id
              old == StrengthOf(subjective_boundaries, territory_boundaries,
                                npc_id, target_id)
              new == StrengthOf(subjective_boundaries', territory_boundaries',
                                npc_id, target_id)
              sum == old + ((15 * adapter_last'.valence) \div 100)
          IN  /\ new = Max(-ONE, Min(ONE, sum))
              /\ -ONE <= new /\ new <= ONE
              /\ IsSeen(subjective_boundaries', territory_boundaries',
                        npc_id, target_id)
              /\ \A other \in AdapterVillagers :
                     LET s == StrengthOf(subjective_boundaries',
                                         territory_boundaries',
                                         other, target_id)
                     IN  -ONE <= s /\ s <= ONE]_vars

\* an unregistered villager's strength was cut back to -1.0, and a first
\* experience with an unseen target started from 0
C18_Witness ==
    /\ adapter_last.op = "record_experience"
    /\ adapter_last.npc_id \notin DOMAIN subjective_boundaries
    /\ adapter_last.valence = -7000000
    /\ n_experiences > 1
    /\ StrengthOf(subjective_boundaries, territory_boundaries,
                  adapter_last.npc_id, adapter_last.target_id) = -ONE

----------------------------------------------------------------------------
(* C19, C20: carpentry projects of several days *)

\* the project objects there are
AllProjects == Range(ongoing_projects) \cup Range(completed_projects)

\* the object the most recent call of continue_project_work worked on
LastWorked == CHOOSE p \in AllProjects : p.id = carpentry_last.id

\* C19: for a project of N work days continue_project_work reports
\* is_completed = True on the N-th call made on it and on no other, and on
\* that call final_quality is the accumulated quality divided by N.
C19_CompletedOnNthCall ==
    carpentry_last.op = "continue" =>
        LET N == LastWorked.project.total_work_days
            final_quality == carpentry_last.final_quality
        IN  /\ carpentry_last.raised = "none"
            /\ carpentry_last.is_completed <=> (LastWorked.calls = N)
            /\ carpentry_last.quality_so_far =
                   LastWorked.quality_accumulation
            /\ IF carpentry_last.is_completed
               THEN /\ final_quality * N <= LastWorked.quality_accumulation
                    /\ LastWorked.quality_accumulation < (final_quality + 1) * N
               ELSE final_quality = None

\* the fifth call on a five-day project has reported its completion
C19_Witness ==
    /\ carpentry_last.op = "continue"
    /\ carpentry_last.is_completed
    /\ LastWorked.project.total_work_days = 5
    /\ LastWorked.calls = 5
    /\ carpentry_last.final_quality > 0

\* the number of entries of a list that are the project with this id
Entries(list, id) == Cardinality({i \in DOMAIN list : list[i].id = id})

\* C20: every started project is in exactly one of the ongoing and the
\* completed list; it is in the completed list exactly when days_worked has
\* reached total_work_days; a completed project is never worked on again;
\* days_worked never exceeds total_work_days.
C20_ProjectLifecycle ==
    [][/\ \A id \in 1 .. project_counter' :
            Entries(ongoing_projects', id)
                + Entries(completed_projects', id) = 1
       /\ \A i \in DOMAIN ongoing_projects' :
            ongoing_projects'[i].days_worked
                < ongoing_projects'[i].project.total_work_days
       /\ \A i \in DOMAIN completed_projects' :
            completed_projects'[i].days_worked
                = completed_projects'[i].project.total_work_days
       /\ \A i \in DOMAIN completed_projects :
            /\ i \in DOMAIN completed_projects'
            /\ completed_projects'[i] = completed_projects[i]
       /\ carpentry_last'.op = "continue" =>
            carpentry_last'.id \notin
                {completed_projects[i].id : i \in DOMAIN completed_projects}
      ]_vars

\* a project has just moved to the completed list, past an earlier one,
\* while another project is still going on
C20_Witness ==
    /\ carpentry_last.op = "continue"
    /\ carpentry_last.is_completed
    /\ Len(completed_projects) = 2
    /\ completed_projects[2].id = 1
    /\ project_counter = 2

----------------------------------------------------------------------------
(* C26, C28: the experience history and the calculations of an update *)

\* an update of the pair k has completed in this step
UpdatedPair(k) ==
    /\ last'.op = "update"
    /\ last'.raised = "none"
    /\ k = << last'.person, last'.activity >>

\* C26: no experience history is ever longer than 30 entries; an append
\* that would make it longer leaves the 20 most recent entries in their
\* order, and any other append keeps every earlier entry in place.
C26_HistoryBounded ==
    [][\A k \in Pairs :
          LET old == experience_history[k]
              new == experience_history'[k]
          IN  /\ Len(new) <= 30
              /\ UpdatedPair(k) =>
                    IF Len(old) = 30
                    THEN /\ Len(new) = 20
                         /\ \A i \in 1 .. 19 : new[i] = old[i + 11]
                         /\ new[20].alignment_work = last'.work
                    ELSE /\ Len(new) = Len(old) + 1
                         /\ \A i \in 1 .. Len(old) : new[i] = old[i]
                         /\ new[Len(new)].alignment_work = last'.work
              /\ ~UpdatedPair(k) => new = old]_vars

\* the 31st update of a pair has cut its history back to 20 entries
C26_Witness ==
    /\ last.op = "update"
    /\ last.raised = "none"
    /\ n_calls = 31
    /\ Len(experience_history[<< last.person, last.activity >>]) = 20

\* C28: an update performs exactly one meaning-pressure calculation: the
\* repetition counter of the pair advances by exactly one, and the meaning
\* pressure in the history record the update appends is the value p the
\* alignment work of the call was computed from.
C28_OneCalculationPerUpdate ==
    [][\A k \in Pairs :
          UpdatedPair(k) =>
              LET h == experience_history'[k]
              IN  /\ repetition_counter'[k] = repetition_counter[k] + 1
                  /\ h[Len(h)].meaning_pressure = last'.pressure]_vars

----------------------------------------------------------------------------
(* C30: trust against boundary strength *)

\* the strengths -1.0, -0.95 .. 1.0
StrengthGrid == {50000 * i - ONE : i \in 0 .. 40}

\* the trust calculate_trust_level answers with when the strength the
\* registered evaluator has stored for the target reads s
TrustAt(evaluator, target, domain, s) ==
    LET boundary == subjective_boundaries[evaluator]
        with_s == [boundary EXCEPT
                      !.boundary_strength = Store(@, person_key(target), s)]
    IN  calculate_trust_level(Store(subjective_boundaries, evaluator, with_s),
                              territory_boundaries, evaluator, target, domain)

\* C30: for a fixed evaluator and domain the trust never falls when the
\* boundary strength rises: s1 <= s2 in [-1, 1] gives trust(s1) <= trust(s2).
C30_TrustMonotone ==
    \A evaluator \in DOMAIN subjective_boundaries, target \in TrustTargets,
       domain \in TrustDomains :
        person_key(target) \in
            DOMAIN subjective_boundaries[evaluator].boundary_strength =>
                \A s1 \in StrengthGrid, s2 \in StrengthGrid :
                    s1 <= s2 =>
                        TrustAt(evaluator, target, domain, s1)
                            <= TrustAt(evaluator, target, domain, s2)

----------------------------------------------------------------------------
(* The injury risk of one activity, outcome and fatigue *)

FatigueLevels == {100000 * i : i \in 0 .. MaxFatigueTenths}

\* the activity types a caller may pass; "fishing" has no profile
ProbeActivities == RiskActivities \cup {"fishing"}

InjuryInit ==
    /\ EngineInit
    /\ fixed = NoFixed
    /\ trace = << >>
    /\ RumorInit
    /\ AdapterInit
    /\ CarpentryInit
    /\ VillageStateInit
    /\ injury_probe \in
           [activity_type : ProbeActivities, success : BOOLEAN,
            fatigue : FatigueLevels, light_injury_risk : {None},
            severe_injury_risk : {None}]

\* _calculate_injury_risk(activity_type, success, villager_name) for a
\* villager whose fatigue_level is the fatigue of the query
CalculateInjuryRisk ==
    /\ injury_probe.light_injury_risk = None
    /\ LET risks == calculate_injury_risk(injury_probe.activity_type,
                                          injury_probe.success,
                                          injury_probe.fatigue)
       IN  injury_probe' =
               [injury_probe EXCEPT
                   !.light_injury_risk = risks.light_injury_risk,
                   !.severe_injury_risk = risks.severe_injury_risk]
    /\ UNCHANGED << engine_vars, rumor_vars, adapter_vars, carpentry_vars,
                    day_vars, material_vars >>

InjuryNext == CalculateInjuryRisk

SpecInjury == InjuryInit /\ [][InjuryNext]_vars

\* C23: for one activity and outcome the light and the severe injury
\* probability computed at fatigue 0.8 are strictly higher than those
\* computed at fatigue 0.0, and for every activity, outcome and fatigue the
\* light probability is at most 0.25 and the severe probability at most 0.10
C23_InjuryRiskScaling ==
    injury_probe.light_injury_risk # None =>
        /\ injury_probe.light_injury_risk <= 250000
        /\ injury_probe.severe_injury_risk <= 100000
        /\ injury_probe.fatigue = 800000 =>
               LET rested == calculate_injury_risk(injury_probe.activity_type,
                                                   injury_probe.success, 0)
               IN  /\ injury_probe.light_injury_risk
                          > rested.light_injury_risk
                   /\ injury_probe.severe_injury_risk
                          > rested.severe_injury_risk

\* a failed construction at fatigue 0.8: both risks are computed above their
\* maxima and returned at them
C23_Witness ==
    /\ injury_probe.activity_type = "construction"
    /\ ~injury_probe.success
    /\ injury_probe.fatigue = 800000
    /\ injury_probe.light_injury_risk = 250000
    /\ injury_probe.severe_injury_risk = 100000

----------------------------------------------------------------------------
(* The integrated simulation: simulate_day, step by step *)

project_vars == << ongoing_projects, completed_projects, project_counter,
                   carpentry_last >>

\* the state after __init__: no day has been simulated
VillageDayInit ==
    /\ EngineInit
    /\ fixed = NoFixed
    /\ trace = << >>
    /\ RumorInit
    /\ AdapterInit
    /\ ongoing_projects = << >>
    /\ completed_projects = << >>
    /\ project_counter = 0
    /\ current_day = 0
    /\ carpentry_last = NoCarpentryCall
    /\ VillageInit

\* what the inertia engine raises on the update calls of a step: its
\* tables have an entry for every ActivityType and for nothing else, and
\* no context of the simulation has 'people_affected'
step_raised(w) ==
    IF \E i \in DOMAIN w.updates : w.updates[i][2] \notin ActivityType
    THEN "KeyError"
    ELSE "none"

\* the step leaves the record w behind and simulate_day moves on; an
\* exception leaves simulate_day where it is raised
Took(w, op, result, next_phase) ==
    /\ w.incidents <= MaxIncidents
    /\ w.demands <= MaxDemands
    /\ villagers' = w.villagers
    /\ food_storage' = w.food_storage
    /\ n_incidents' = w.incidents
    /\ n_demands' = w.demands
    /\ village_last' =
           [op |-> op, raised |-> step_raised(w), events |-> w.events,
            updates |-> w.updates, resolutions |-> w.resolutions,
            result |-> IF step_raised(w) = "none" THEN result ELSE None]
    /\ phase' = IF step_raised(w) = "none" THEN next_phase ELSE "halted"
    /\ UNCHANGED << engine_vars, rumor_vars, adapter_vars, project_vars,
                    injury_probe, material_vars >>

\* simulate_day begins: the day is counted and _update_daily_environment
\* resets the work of the day before
BeginDay ==
    /\ phase = "idle"
    /\ current_day < MaxSimDay
    /\ current_day' = current_day + 1
    /\ phases_run' = << >>
    /\ Took([World EXCEPT !.villagers =
                [name \in VillagerNames |->
                    [@[name] EXCEPT
                        !.daily_energy_used = 0,
                        !.work_sessions_today = 0,
                        !.fatigue_level = Max(0, @ - 200000)]]],
            "begin", None, "morning")

\* after_hunting if the return of a morning short of food ended the
\* afternoon as well
after_hunting_skip(food) ==
    IF food < 2 * ONE THEN "evening" ELSE "cooking"

\* where the day goes on after the hunt: with less than 2.0 of food in the
\* morning _morning_production_activities returns after the hunt
after_hunting(food) ==
    IF food < 2 * ONE THEN "afternoon" ELSE "cooking"

\* _morning_production_activities up to the end of the hunt
Hunting ==
    /\ phase = "morning"
    /\ LET hungry == update_hunger(World)
       IN  \E team \in hunting_teams(available_hunters(hungry)) :
             \E draws \in [1 .. Len(team) -> HuntDraws] :
               Took(hunt_all(hungry, team, draws), "hunting", None,
                    after_hunting(food_storage))
    /\ phases_run' = Append(phases_run, "morning")
    /\ UNCHANGED current_day

\* _morning_production_activities: the cooking
Cooking ==
    /\ phase = "cooking"
    /\ \E draw \in CookingDraws :
         Took(conduct_cooking(World, draw), "cooking", None, "carpentry")
    /\ UNCHANGED << phases_run, current_day >>

\* _morning_production_activities: the carpentry; there is work for a
\* carpenter when random.random() is not above 0.3
Carpentry ==
    /\ phase = "carpentry"
    /\ \E demand \in {200000, 500000} :
         IF demand > 300000 \/ available_carpenters(World) = {}
         THEN Took(World, "carpentry", None, "afternoon")
         ELSE LET carpenter_name ==
                      best_scored(available_carpenters(World),
                                  LAMBDA name : effective_skill(World, name))
              IN  \E draw \in CarpentryDraws(carpenter_name) :
                    Took([carpentry_work(World, carpenter_name, draw)
                             EXCEPT !.demands = @ + 1],
                         "carpentry", None, "afternoon")
    /\ UNCHANGED << phases_run, current_day >>

\* _afternoon_social_activities
Afternoon ==
    /\ phase = "afternoon"
    /\ \E draws \in care_draws(World), emergency \in EmergencyDraws :
         Took(handle_emergency(conduct_caregiving(World, draws), emergency),
              "afternoon", None, "evening")
    /\ phases_run' = Append(phases_run, "afternoon")
    /\ UNCHANGED current_day

\* _evening_recovery, and simulate_day returns its result
Evening ==
    /\ phase = "evening"
    /\ \E rolls \in EveningDraws :
         LET w == evening_recovery(World, rolls)
         IN  Took(w, "evening",
                  [day |-> current_day,
                   villagers |-> Cardinality(VillagerNames),
                   food_storage |-> w.food_storage],
                  "idle")
    /\ phases_run' = Append(phases_run, "evening")
    /\ UNCHANGED current_day

VillageNext ==
    BeginDay \/ Hunting \/ Cooking \/ Carpentry \/ Afternoon \/ Evening

SpecVillage == VillageDayInit /\ [][VillageNext]_vars


----------------------------------------------------------------------------
(* The integrated simulation: properties *)

\* the villagers one of the selections of the day would take
Eligible ==
    available_hunters(World) \cup available_cooks(World)
        \cup available_carpenters(World) \cup available_caregivers(World)

\* the villagers that carried out an activity in the step just taken
Actors(step) ==
    {step.resolutions[i].actor : i \in DOMAIN step.resolutions}

\* what a step does to a villager who is, or becomes, severely injured
SevereInjuryStep(name) ==
    LET before == villagers[name]
        after == villagers'[name]
    IN  /\ before.severe_injury =>
              /\ ~can_work(before, 0)
              /\ name \notin Eligible
              /\ name \notin Actors(village_last')
              /\ before.injury_recovery_days \in 1 .. 7
              /\ IF after.severe_injury
                 THEN after.injury_recovery_days =
                          IF phase = "evening"
                          THEN before.injury_recovery_days - 1
                          ELSE before.injury_recovery_days
                 ELSE /\ phase = "evening"
                      /\ before.injury_recovery_days = 1
                      /\ after.injury_recovery_days = 0
        /\ (~before.severe_injury /\ after.severe_injury) =>
               after.injury_recovery_days \in 3 .. 7

\* C21: a severely injured villager is taken for no activity, whatever its
\* energy, as long as the injury lasts: the injury is given 3 to 7 days,
\* only the recovery of the evening counts them down, and the villager is
\* eligible again only once that count has reached zero
C21_SevereInjuryIncapacitates ==
    [][\A name \in VillagerNames : SevereInjuryStep(name)]_vars

\* a villager has come through a severe injury and may hunt again
C21_Witness ==
    /\ village_last.op = "evening"
    /\ \E name \in VillagerNames :
         /\ \E i \in DOMAIN village_last.events :
              /\ village_last.events[i].type = "severe_injury_recovery"
              /\ village_last.events[i].actor = name
         /\ ~villagers[name].severe_injury
         /\ can_work(villagers[name], hunting_energy_required)


\* the phases a day has begun when simulate_day is at the given place
PhasesBegun ==
    CASE phase = "idle" ->
             IF current_day = 0 THEN << >>
             ELSE << "morning", "afternoon", "evening" >>
      [] phase = "morning" -> << >>
      [] phase \in {"cooking", "carpentry", "afternoon"} -> << "morning" >>
      [] phase = "evening" -> << "morning", "afternoon" >>
      [] OTHER -> << "halted" >>

\* simulate_day has returned the result of the day
Returned ==
    /\ village_last.op = "evening"
    /\ village_last.raised = "none"
    /\ village_last.result.day = current_day
    /\ village_last.result.food_storage = food_storage

\* how far simulate_day has come in the day
Progress(place) ==
    CASE place = "morning" -> 1
      [] place = "cooking" -> 2
      [] place = "carpentry" -> 3
      [] place = "afternoon" -> 4
      [] place = "evening" -> 5
      [] place = "idle" -> 6
      [] OTHER -> 0

\* the day as far as it has come: nothing was raised, the phases begun
\* are those before the place simulate_day is at, and between two days the
\* result of the day is returned
DayInOrder ==
    /\ village_last.raised = "none"
    /\ phases_run = PhasesBegun
    /\ (phase = "idle" /\ current_day > 0) => Returned

C22_EnergyWithinDailyCap ==
    /\ \A name \in VillagerNames :
         villagers[name].daily_energy_used <= daily_energy_cap
    /\ \A i \in DOMAIN village_last.resolutions :
         village_last.resolutions[i].used_before
             + village_last.resolutions[i].consumed <= daily_energy_cap

\* the engine updates the last step made for one villager
UpdatesFor(step, name) ==
    {j \in DOMAIN step.updates : step.updates[j][1] = name}

\* C27: every activity the scheduler resolves, a success or a failure,
\* makes exactly one engine update, and that update is for the villager who
\* acted and for the activity carried out
C27_OneUpdatePerResolution ==
    \A i \in DOMAIN village_last.resolutions :
        LET resolution == village_last.resolutions[i]
        IN  /\ Cardinality(UpdatesFor(village_last, resolution.actor)) = 1
            /\ \A j \in UpdatesFor(village_last, resolution.actor) :
                   village_last.updates[j][2] = resolution.activity

\* the afternoon begins with somebody to look after and somebody to do it
CareIsDue ==
    /\ phase = "afternoon"
    /\ patients(World) # {}
    /\ available_caregivers(World) # {}

\* C29: an afternoon that begins with a villager who is injured or whose
\* health is below 0.7, and with a villager who may give care, resolves a
\* caregiving: a care-provided event is emitted, the caregiving record of
\* a caregiver is updated, and the health of a patient the emergency of the
\* afternoon did not strike goes up by 0.2, to 1.0 at most
C29_CareIsGiven ==
    [][CareIsDue =>
         /\ \E i \in DOMAIN village_last'.events :
                village_last'.events[i].type = "care_provided"
         /\ \E j \in DOMAIN village_last'.updates :
                /\ village_last'.updates[j][1] \in available_caregivers(World)
                /\ village_last'.updates[j][2] = "caregiving"
         /\ \E name \in patients(World) :
                \/ villagers'[name].health
                       = Min(ONE, villagers[name].health + 200000)
                \/ \E i \in DOMAIN village_last'.events :
                       /\ village_last'.events[i].type = "emergency_situation"
                       /\ village_last'.events[i].actor = name]_vars


----------------------------------------------------------------------------
(* The carpentry system: a job of one day and the material storage         *)
(* (execute_carpentry_with_meaning_pressure)                               *)

\* the draws of one execution: random.random() for the success,
\* random.uniform(0.0, 0.2) for the quality of a success,
\* random.uniform(0.2, 0.5) for the quality of a failure, and
\* random.random() < 0.2 for the mentor, who is away
ExecutionDraws ==
    [roll : {50000, 950000}, spread : {100000}, loss : {350000},
     mentor_present : {FALSE}]

\* min(current_skill * 0.3, 1.0)
skill_modifier(call) == Min(Mul(call.current_skill, 300000), ONE)

\* random.random() < max(0.1, 0.4 + skill_modifier - complexity * 0.3)
execution_success(call) ==
    call.draw.roll <
        Max(100000, 400000 + skill_modifier(call)
                        - Mul(call.request.complexity, 300000))

\* project.materials_required * (1.2 if not success else 1.0)
materials_needed(call) ==
    IF execution_success(call) THEN call.project.materials_required
    ELSE Mul(call.project.materials_required, 1200000)

\* _create_carpentry_meaning_context, for a request with the urgency and
\* the village_wide_impact of the dataclass
carpentry_meaning_context(call, effectiveness, storage) ==
    LET project == call.project
        success == execution_success(call)
    IN  [success |-> success,
         effectiveness |-> effectiveness,
         difficulty |-> call.request.complexity,
         innovation |-> project.innovation_potential > 300000,
         collaboration |-> project.collaboration_needed,
         emergency |-> call.request.construction_type = "emergency_repair",
         village_wide_impact |-> FALSE,
         people_affected |-> 1,
         creativity_required |-> project.innovation_potential > 400000,
         time_pressure |-> FALSE,
         resource_scarcity |-> storage < 2 * ONE,
         new_technique |-> project.innovation_potential > 600000 /\ success,
         high_stakes |-> FALSE,
         mentor_present |-> call.draw.mentor_present]

\* execute_carpentry_with_meaning_pressure on a storage of stock: the
\* storage it leaves, the context it hands to the engine and the dict it
\* returns (the reputation and the trust it also updates are read by none
\* of the three)
execution_outcome(call, stock) ==
    LET project == call.project
        success == execution_success(call)
        quality ==
            IF success
            THEN Min(ONE, project.base_quality + skill_modifier(call)
                              + call.draw.spread)
            ELSE Max(100000, project.base_quality - call.draw.loss)
        effectiveness == IF success THEN quality ELSE Mul(quality, 500000)
        materials_used == materials_needed(call)
        storage == Max(0, stock - materials_used)
        context == carpentry_meaning_context(call, effectiveness, storage)
    IN  [material_storage |-> storage,
         context |-> context,
         result |->
             [success |-> success,
              effectiveness |-> effectiveness,
              quality |-> quality,
              project_name |-> project.name,
              materials_used |-> materials_used,
              village_benefit |->
                  IF success THEN project.village_benefit ELSE 0,
              carpentry_inertia |->
                  new_inertia(call.current_skill,
                              meaning_pressure("social_coordination",
                                               context, call.count),
                              "social_coordination", context,
                              TimeDecayDefault),
              reputation_gained |-> success]]

\* a carpenter carries out a job of one day
ExecuteCarpentry ==
    /\ n_executions < MaxExecutions
    /\ \E carpenter_name \in Carpenters, request \in Requests :
         \E project \in select_project_for_request(request),
            draw \in ExecutionDraws :
           LET k == << carpenter_name, "social_coordination" >>
               call == [carpenter |-> carpenter_name, request |-> request,
                        project |-> project, draw |-> draw,
                        current_skill |-> Lookup(alignment_inertia, k),
                        count |-> repetition_counter[k]]
               out == execution_outcome(call, material_storage)
           IN  /\ material_storage' = out.material_storage
               /\ update_alignment_inertia(carpenter_name,
                                           "social_coordination",
                                           out.context)
               /\ execution_last' =
                      [op |-> "execute", raised |-> last'.raised,
                       call |-> call, stock_before |-> material_storage,
                       result |->
                           IF last'.raised = "none"
                           THEN [out.result EXCEPT
                                    !.carpentry_inertia = last'.after]
                           ELSE None]
    /\ n_executions' = n_executions + 1
    /\ n_calls' = n_calls + 1
    /\ UNCHANGED << fixed, trace >>
    /\ UNCHANGED << rumor_vars, adapter_vars, carpentry_vars, day_vars,
                    injury_probe >>

MaterialsNext == ExecuteCarpentry

SpecMaterials == Init /\ [][MaterialsNext]_vars

\* the storage does not cover the materials of the execution just made
Shortage ==
    /\ execution_last.op = "execute"
    /\ execution_last.stock_before < materials_needed(execution_last.call)

\* C24: when the material storage does not cover a requested job, the
\* execution raises nothing, leaves a storage that is not negative, and
\* returns an outcome that tells the shortage from a normal execution: it
\* is not the outcome the same job has on a storage that covers it
C24_ShortageIsDistinguished ==
    Shortage =>
        /\ execution_last.raised = "none"
        /\ material_storage >= 0
        /\ execution_last.result #
               execution_outcome(
                   execution_last.call,
                   materials_needed(execution_last.call)).result

====
